---- MODULE Spec2Model ----
(***************************************************************************)
(* A model of the IPv4 engine of the per-core network stack (net/ip.cc),   *)
(* of the flow steering in front of it and of the packet buffer            *)
(* (net/packet.cc).  Each handler of the code is one action; pure          *)
(* functions of the code are operators.                                    *)
(***************************************************************************)
EXTENDS Integers, Sequences, FiniteSets, TLC

(***************************************************************************)
(* Bounds of the model.                                                    *)
(***************************************************************************)
\* smp::count: the number of cores
NCores == 2
\* the number of identification values the peer uses
MaxId == 2
\* seconds the clock advances in one Tick
TickStep == 20
\* the clock stops advancing at MaxNow seconds
MaxNow == 60
\* packets in flight between two cores, per destination core
MaxInFlight == 1
\* the longest age list a core builds
MaxAgeLen == 3
\* the number of bytes that stands for 1 MiB in the reassembly thresholds,
\* so that frag_low_thresh and frag_high_thresh are reached with few entries
MiB == 16

Cores == 0 .. (NCores - 1)

(***************************************************************************)
(* Program constants.                                                      *)
(***************************************************************************)
\* sizeof(ip_hdr), net::ipv4_hdr_len_min
ipv4_hdr_len_min == 20
\* net::ip_packet_len_max
ip_packet_len_max == 65535
\* ipv4::_frag_timeout, seconds
frag_timeout_s == 30
\* ipv4::_frag_low_thresh = 3 * 1024 * 1024
frag_low_thresh == 3 * MiB
\* ipv4::_frag_high_thresh = 4 * 1024 * 1024
frag_high_thresh == 4 * MiB
\* ip_protocol_num
IPPROTO_ICMP == 1
IPPROTO_TCP == 6
IPPROTO_UDP == 17
\* uint16_t arithmetic wraps at 2^16
U16 == 65536
\* uint32_t arithmetic wraps at 2^32 = 4096 MiB
U32 == 4096 * MiB

U32sub(a, b) == (a - b) % U32
U32add(a, b) == (a + b) % U32

Min(S) == CHOOSE x \in S : \A y \in S : x <= y
Max(S) == CHOOSE x \in S : \A y \in S : x >= y
MinOf(a, b) == IF a <= b THEN a ELSE b
Restrict(f, S) == [x \in S |-> f[x]]

RECURSIVE SumOver(_, _)
\* the sum of f[x] over the x in S
SumOver(f, S) ==
    IF S = {} THEN 0
    ELSE LET x == CHOOSE y \in S : TRUE
         IN  f[x] + SumOver(f, S \ {x})

RECURSIVE SeqRemove(_, _)
\* std::list::remove: the list without the elements equal to x
SeqRemove(s, x) ==
    IF s = <<>> THEN <<>>
    ELSE IF Head(s) = x THEN SeqRemove(Tail(s), x)
         ELSE <<Head(s)>> \o SeqRemove(Tail(s), x)

(***************************************************************************)
(* Interface configuration (set before the event loop starts).  Addresses  *)
(* are 32-bit numbers; the netmask is 255.255.255.0.                       *)
(***************************************************************************)
SubnetSize == 256
\* 10.0.0.1, the host
HostAddr == 10 * 16777216 + 1
\* 10.0.0.5, a peer in the host's subnet
PeerAddr == 10 * 16777216 + 5
\* 10.0.1.9, a host outside the subnet
FarAddr == 10 * 16777216 + 256 + 9
\* 10.0.0.254, the default gateway
GwAddr == 10 * 16777216 + 254

\* ipv4::_l4 as the constructor fills it: tcp and icmp
L4Registered == {IPPROTO_TCP, IPPROTO_ICMP}

(***************************************************************************)
(* Packets.  An IP frame is its fixed header h (host order) and data: the  *)
(* bytes that follow the 20 bytes of the fixed header (options, then the   *)
(* payload).  csum_bad: the header checksum does not verify.  reassembled: *)
(* offload_info::reassembled.                                              *)
(***************************************************************************)
mf_shift == 13
offset_shift == 3

\* ip_hdr::frag for an MF bit and a fragment offset field
FragWord(mf, off) == (IF mf THEN 2^mf_shift ELSE 0) + off
\* ip_hdr::mf()
hdr_mf(h) == (h.frag \div 2^mf_shift) % 2 = 1
\* ip_hdr::offset(): the 16-bit word shifted left by 3, in bytes
hdr_offset(h) == (h.frag * 2^offset_shift) % U16

MkHdr(src, dst, id, proto, mf, off, ihl, len) ==
    [src_ip |-> src, dst_ip |-> dst, id |-> id, ip_proto |-> proto,
     frag |-> FragWord(mf, off), ihl |-> ihl, len |-> len]

MkPkt(h, data, bad) ==
    [h |-> h, data |-> data, csum_bad |-> bad, reassembled |-> FALSE]

\* packet::len() of a frame that starts at its IP header
PktLen(p) == ipv4_hdr_len_min + Len(p.data)

\* the bytes of the fixed header, when they are read as payload
HdrBytes == [i \in 1 .. ipv4_hdr_len_min |-> 0]

\* the bytes of the frame from the IP header on
PktBytes(p) == HdrBytes \o p.data

\* packet::trim_front(n) on a frame, as a byte string
trim_front(bytes, n) == SubSeq(bytes, n + 1, Len(bytes))
\* packet::trim_back(n)
trim_back(bytes, n) == SubSeq(bytes, 1, Len(bytes) - n)
\* packet::share(offset, len)
share(bytes, offset, len) ==
    SubSeq(bytes, offset + 1, MinOf(offset + len, Len(bytes)))
\* packet::memory(): the bytes the packet holds
memory(bytes) == Len(bytes)

(***************************************************************************)
(* Flow steering.                                                          *)
(***************************************************************************)
ipv4_frag_id(h) == <<h.src_ip, h.dst_ip, h.id, h.ip_proto>>

\* ipv4_frag_id::hash
frag_id_hash(k) == k[1] + k[2] + k[3] + k[4]

RECURSIVE SeqSum(_)
SeqSum(s) == IF s = <<>> THEN 0 ELSE Head(s) + SeqSum(Tail(s))

\* ip_protocol::forward(p, off, from, to): a hash of the addresses and of the
\* L4 ports, the 4 bytes at offset off of the packet
l4_forward(bytes, off, from, to) ==
    (from + to + SeqSum(share(bytes, off, 4))) % NCores

\* handle_on_cpu that keeps every frame on the calling core
handle_on_cpu_local(cur, p) == cur

\* handle_on_cpu that hashes the fragment key of every frame
handle_on_cpu_by_key(cur, p) == frag_id_hash(ipv4_frag_id(p.h)) % NCores

\* ipv4::handle_on_cpu(p, off), called on core cur; the frame starts at its
\* IP header
handle_on_cpu(cur, p) ==
    IF p.h.ip_proto \notin L4Registered
    THEN cur
    ELSE IF ~hdr_mf(p.h) /\ hdr_offset(p.h) = 0
         THEN l4_forward(PktBytes(p), ipv4_hdr_len_min, p.h.src_ip, p.h.dst_ip)
         ELSE frag_id_hash(ipv4_frag_id(p.h)) % NCores

\* ipv4::in_my_netmask of the engine whose _host_address is self
in_my_netmask(self, a) == (a \div SubnetSize) = (self \div SubnetSize)

(***************************************************************************)
(* Fragment reassembly.                                                    *)
(***************************************************************************)
NoHdr == MkHdr(0, 0, 0, 0, FALSE, 0, 0, 0)

\* a value-initialised ipv4::frag, as _frags[frag_id] creates it
DefaultFrag ==
    [header |-> <<>>, hdr |-> NoHdr, data |-> <<>>,
     last_frag_received |-> FALSE, rx_time |-> 0, mem_size |-> 0]

SegEnd(map, k) == k + Len(map[k])

\* the byte at position i of the union of the segments of map that touch the
\* new segment (beg, bytes): a byte already held is kept
MergedByte(map, touching, beg, bytes, i) ==
    IF \E k \in touching : k <= i /\ i < SegEnd(map, k)
    THEN LET k == CHOOSE k \in touching : k <= i /\ i < SegEnd(map, k)
         IN  map[k][i - k + 1]
    ELSE bytes[i - beg + 1]

\* the segments of map that the segment from beg to end overlaps or touches
Touching(map, beg, end) ==
    {k \in DOMAIN map : k <= end /\ beg <= SegEnd(map, k)}

\* the map with the segments touching replaced by the one segment from nb to
\* ne that they and the new segment (beg, bytes) make up
Coalesce(map, touching, beg, bytes, nb, ne) ==
    [k \in (DOMAIN map \ touching) \cup {nb} |->
        IF k = nb
        THEN [j \in 1 .. (ne - nb) |->
                 MergedByte(map, touching, beg, bytes, nb + j - 1)]
        ELSE map[k]]

CoalesceWith(map, touching, beg, bytes) ==
    Coalesce(map, touching, beg, bytes,
             Min({beg} \cup touching),
             Max({beg + Len(bytes)} \cup {SegEnd(map, k) : k \in touching}))

\* packet_merger::merge(offset, p): insert the segment and coalesce it with
\* every segment it overlaps or touches
packet_merge(map, beg, bytes) ==
    CoalesceWith(map, Touching(map, beg, beg + Len(bytes)), beg, bytes)

\* the entry with its header slot and its map set, and mem_size recomputed
\* (lines 370-374)
frag_with(frag, header, hdr, data) ==
    [frag EXCEPT
        !.header = header, !.hdr = hdr, !.data = data,
        !.mem_size =
            (memory(header)
             + SumOver([k \in DOMAIN data |-> memory(data[k])], DOMAIN data))
            % U32]

\* ipv4::frag::merge(h, offset, p): the entry after the merge
frag_merge(frag, h, offset, pbytes) ==
    frag_with(frag,
              IF offset = 0 THEN share(pbytes, 0, h.ihl * 4) ELSE frag.header,
              IF offset = 0 THEN h ELSE frag.hdr,
              packet_merge(frag.data, offset, trim_front(pbytes, h.ihl * 4)))

\* is_complete without the test of last_frag_received
is_complete_no_last(frag) ==
    /\ Cardinality(DOMAIN frag.data) = 1
    /\ Min(DOMAIN frag.data) = 0

\* ipv4::frag::is_complete
is_complete(frag) ==
    /\ frag.last_frag_received
    /\ Cardinality(DOMAIN frag.data) = 1
    /\ Min(DOMAIN frag.data) = 0

\* the frame made of the bytes of an IP header followed by ip_data, marked
\* reassembled
AssembledFrame(hdr, bytes) ==
    [h |-> [hdr EXCEPT !.len = Len(bytes) % U16, !.frag = 0],
     data |-> trim_front(bytes, ipv4_hdr_len_min),
     csum_bad |-> FALSE,
     reassembled |-> TRUE]

\* ipv4::frag::get_assembled_packet, without the ethernet header
get_assembled_packet(frag) ==
    AssembledFrame(frag.hdr, frag.header \o frag.data[Min(DOMAIN frag.data)])

(***************************************************************************)
(* The reassembly state of one core: st.frags is _frags, st.age is         *)
(* _frags_age, st.mem is _frag_mem, st.armed and st.deadline are           *)
(* _frag_timer.                                                            *)
(***************************************************************************)
\* _frags[frag_id] of a key that may be absent
FragAt(st, k) == IF k \in DOMAIN st.frags THEN st.frags[k] ELSE DefaultFrag

\* frag_drop that leaves _frag_mem alone
frag_drop_keep_mem(st, k, dropped_size) ==
    [st EXCEPT !.frags = Restrict(@, DOMAIN @ \ {k})]

\* ipv4::frag_drop
frag_drop(st, k, dropped_size) ==
    [st EXCEPT !.frags = Restrict(@, DOMAIN @ \ {k}),
               !.mem = U32sub(@, dropped_size)]

\* a pass that drops the youngest frag_id
frag_limit_pop_back(st, dropped_size) ==
    frag_drop([st EXCEPT !.age = SubSeq(@, 1, Len(@) - 1)],
              st.age[Len(st.age)], dropped_size)

\* one pass of the while loop of ipv4::frag_limit_mem: the oldest frag_id is
\* popped from _frags_age and its entry, of size dropped_size, is dropped
frag_limit_pop(st, dropped_size) ==
    frag_drop([st EXCEPT !.age = Tail(@)], Head(st.age), dropped_size)

RECURSIVE frag_limit_loop(_, _)
\* the while loop of ipv4::frag_limit_mem
frag_limit_loop(st, drop) ==
    IF drop = 0 \/ st.age = <<>> THEN st
    ELSE frag_limit_loop(
             frag_limit_pop(st, FragAt(st, Head(st.age)).mem_size),
             drop - MinOf(drop, FragAt(st, Head(st.age)).mem_size))

\* frag_limit_mem that evicts nothing
frag_limit_mem_off(st) == st

\* frag_limit_mem that takes the low threshold for the trigger
frag_limit_mem_low(st) ==
    IF st.mem <= frag_low_thresh THEN st
    ELSE frag_limit_loop(st, U32sub(st.mem, frag_low_thresh))

\* ipv4::frag_limit_mem
frag_limit_mem(st) ==
    IF st.mem <= frag_high_thresh THEN st
    ELSE frag_limit_loop(st, U32sub(st.mem, frag_low_thresh))

\* whether the sweep of frag_timeout drops an entry received at rx_time
frag_expired(t, rx_time) == t > rx_time + frag_timeout_s

\* the state after _frags[k], which creates the entry when it is absent
Touch(st, k) ==
    [st EXCEPT !.frags = [x \in DOMAIN @ \cup {k} |-> FragAt(st, x)]]

RECURSIVE frag_timeout_loop(_, _)
\* the for loop of ipv4::frag_timeout: it erases from the front of the age
\* list and stops at the first entry that has not expired
frag_timeout_loop(st, t) ==
    IF st.age = <<>> THEN st
    ELSE IF frag_expired(t, FragAt(st, Head(st.age)).rx_time)
         THEN frag_timeout_loop(
                  [frag_drop(st, Head(st.age), FragAt(st, Head(st.age)).mem_size)
                      EXCEPT !.age = Tail(@)], t)
         ELSE Touch(st, Head(st.age))

\* the end of the callback without the arming of line 349
frag_timeout_end_no_arm(swept, t) ==
    IF DOMAIN swept.frags # {} THEN swept ELSE [swept EXCEPT !.mem = 0]

\* lines 348-352, after the sweep
frag_timeout_end(swept, t) ==
    IF DOMAIN swept.frags # {}
    THEN [swept EXCEPT !.armed = TRUE, !.deadline = t + frag_timeout_s]
    ELSE [swept EXCEPT !.mem = 0]

\* ipv4::frag_timeout, the callback of _frag_timer, at time t
frag_timeout(st, t) ==
    IF DOMAIN st.frags = {} THEN st
    ELSE frag_timeout_end(frag_timeout_loop(st, t), t)

(***************************************************************************)
(* State.                                                                  *)
(***************************************************************************)
VARIABLES
    frags,        \* ipv4::_frags of each core: frag_id -> frag
    frags_age,    \* ipv4::_frags_age of each core: the list of frag_ids
    frag_mem,     \* ipv4::_frag_mem of each core
    frag_timer,   \* ipv4::_frag_timer of each core: armed, deadline
    now,          \* clock_type::now(), seconds
    fwdq,         \* packets forwarded to each core and not yet received there
    hw_features,  \* net::hw_features of the device
    crashed,      \* the process died
    last,         \* what the last step did
    tx,           \* ipv4::send of the sending engine: its arguments and send_info
    wire,         \* the frames the sending engine handed to send_raw, in order
    wire_rx,      \* the positions of wire the host has received
    l4_log,       \* the calls of ip_protocol::received, in order
    probe,        \* the frames handle_on_cpu is asked about, and its answers
    pk,           \* a net::packet: its fragment array, _nr_frags and _len
    mb,           \* the NIC buffers, the packets that hold them, their deleters
    ic,           \* the packet icmp::received was called with
    arp,          \* the calls of _arp.learn, in order
    packet_filter \* ipv4::_packet_filter: whether a filter is installed

rxvars == <<frags, frags_age, frag_mem, frag_timer, fwdq, crashed, last>>
txvars == <<tx, wire>>
vars == <<frags, frags_age, frag_mem, frag_timer, now, fwdq, hw_features,
          crashed, last, tx, wire, wire_rx, l4_log, probe, pk, mb, ic, arp,
          packet_filter>>

StOf(c) ==
    [frags |-> frags[c], age |-> frags_age[c], mem |-> frag_mem[c],
     armed |-> frag_timer[c].armed, deadline |-> frag_timer[c].deadline]

SetSt(c, st) ==
    /\ frags' = [frags EXCEPT ![c] = st.frags]
    /\ frags_age' = [frags_age EXCEPT ![c] = st.age]
    /\ frag_mem' = [frag_mem EXCEPT ![c] = st.mem]
    /\ frag_timer' = [frag_timer EXCEPT
                         ![c] = [armed |-> st.armed, deadline |-> st.deadline]]

(***************************************************************************)
(* ipv4::handle_received_packet.  The result names the new reassembly      *)
(* state of the core, the L4 delivery (l4), the packet forwarded to        *)
(* another core (fwd) and, for a fragment, _frag_mem before and after      *)
(* frag_limit_mem (lim).                                                   *)
(***************************************************************************)
RxResult(st, op, l4, fwd, lim) ==
    [st |-> st, st_skip |-> st, op |-> op, l4 |-> l4, fwd |-> fwd, lim |-> lim]

L4Call(cur, h, payload) ==
    <<[cpu |-> cur, proto |-> h.ip_proto, from |-> h.src_ip, to |-> h.dst_ip,
       payload |-> payload]>>

\* completion that hands the datagram to the local handler and forwards it
\* as well
complete_and_forward(st1, cur, h, k, f3, cpu_id, done, limobs) ==
    RxResult(done, "complete",
             L4Call(cur, h, f3.data[Min(DOMAIN f3.data)]),
             IF cpu_id = cur THEN <<>>
             ELSE <<[to |-> cpu_id, pkt |-> get_assembled_packet(f3)]>>,
             limobs)

\* lines 144-167: the entry f3 of key k is complete.  When no handler is
\* registered, l4->received is a call through a null pointer (op
\* "null_call"): st is the state at the call, st_skip the state when
\* execution goes on after it
complete(st1, cur, h, k, f3, cpu_id, done, limobs) ==
    IF cpu_id = cur
    THEN IF h.ip_proto \in L4Registered
         THEN RxResult(done, "complete",
                       L4Call(cur, h, f3.data[Min(DOMAIN f3.data)]), <<>>, limobs)
         ELSE [RxResult(st1, "null_call", <<>>, <<>>, limobs)
                  EXCEPT !.st_skip = done]
    ELSE RxResult(done, "complete", <<>>,
                  <<[to |-> cpu_id, pkt |-> get_assembled_packet(f3)]>>, limobs)

\* lines 143-173: st1 is the state after the merge made f3 of the entry
after_merge(st1, cur, h, k, f3, t, limobs) ==
    IF is_complete(f3)
    THEN complete(st1, cur, h, k, f3,
                  IF h.ip_proto \in L4Registered
                  THEN l4_forward(f3.data[Min(DOMAIN f3.data)], 0,
                                  h.src_ip, h.dst_ip)
                  ELSE cur,
                  [frag_drop(st1, k, f3.mem_size) EXCEPT !.age = SeqRemove(@, k)],
                  limobs)
    ELSE RxResult(IF st1.armed THEN st1
                  ELSE [st1 EXCEPT !.armed = TRUE,
                                   !.deadline = t + frag_timeout_s],
                  "fragment", <<>>, <<>>, limobs)

\* lines 142-143: the entry f2 becomes f3 by the merge; fresh: the frag_id
\* was taken for newly created
merge_into(lim, cur, h, k, f2, f3, fresh, t, limobs) ==
    after_merge([lim EXCEPT
                    !.frags = [x \in DOMAIN lim.frags \cup {k} |->
                                  IF x = k THEN f3 ELSE lim.frags[x]],
                    !.age = IF fresh THEN Append(@, k) ELSE @,
                    !.mem = (@ + f3.mem_size - f2.mem_size) % U32],
                cur, h, k, f3, t, limobs)

\* lines 133-141: the entry f0 = _frags[frag_id] with last_frag_received and
\* rx_time set
frag_touch(f0, h, t) ==
    [f0 EXCEPT
        !.last_frag_received = IF ~hdr_mf(h) THEN TRUE ELSE @,
        !.rx_time = IF f0.mem_size = 0 THEN t ELSE @]

reassemble_entry(lim, cur, h, k, pbytes, f0, f2, t, limobs) ==
    merge_into(lim, cur, h, k, f2, frag_merge(f2, h, hdr_offset(h), pbytes),
               f0.mem_size = 0, t, limobs)

reassemble_key(lim, cur, h, k, pbytes, f0, t, limobs) ==
    reassemble_entry(lim, cur, h, k, pbytes, f0, frag_touch(f0, h, t), t, limobs)

reassemble_lim(st0, lim, cur, h, pbytes, t) ==
    reassemble_key(lim, cur, h, ipv4_frag_id(h), pbytes,
                   FragAt(lim, ipv4_frag_id(h)), t,
                   <<[pre |-> st0.mem, post |-> lim.mem,
                      empty |-> DOMAIN lim.frags = {}]>>)

\* lines 128-175: the datagram needs reassembly
reassemble(st0, cur, h, pbytes, t) ==
    reassemble_lim(st0, frag_limit_mem(st0), cur, h, pbytes, t)

\* handle_trimmed without the test of the destination address
handle_trimmed_any_dst(st, cur, p, bytes, t) ==
    IF hdr_offset(p.h) + Len(bytes) > ip_packet_len_max
    THEN RxResult(st, "drop", <<>>, <<>>, <<>>)
    ELSE IF hdr_mf(p.h) \/ hdr_offset(p.h) # 0
    THEN reassemble(st, cur, p.h, bytes, t)
    ELSE IF p.h.ip_proto \in L4Registered
    THEN RxResult(st, "deliver",
                  L4Call(cur, p.h, trim_front(bytes, p.h.ihl * 4)), <<>>, <<>>)
    ELSE RxResult(st, "drop", <<>>, <<>>, <<>>)

\* lines 105-183, for the frame bytes after the trim to the IP total length
handle_trimmed(st, cur, p, bytes, t) ==
    IF hdr_offset(p.h) + Len(bytes) > ip_packet_len_max
    THEN RxResult(st, "drop", <<>>, <<>>, <<>>)
    ELSE IF p.h.dst_ip # HostAddr
    THEN RxResult(st, "drop", <<>>, <<>>, <<>>)
    ELSE IF hdr_mf(p.h) \/ hdr_offset(p.h) # 0
    THEN reassemble(st, cur, p.h, bytes, t)
    ELSE IF p.h.ip_proto \in L4Registered
    THEN RxResult(st, "deliver",
                  L4Call(cur, p.h, trim_front(bytes, p.h.ihl * 4)), <<>>, <<>>)
    ELSE RxResult(st, "drop", <<>>, <<>>, <<>>)

\* ipv4::handle_received_packet(p, from) on core cur at time t
handle_received_packet(st, cur, p, t, rx_csum_offload) ==
    IF ~rx_csum_offload /\ ~p.reassembled /\ p.csum_bad
    THEN RxResult(st, "drop", <<>>, <<>>, <<>>)
    ELSE IF PktLen(p) < p.h.len
    THEN RxResult(st, "drop", <<>>, <<>>, <<>>)
    ELSE handle_trimmed(st, cur, p,
                        IF PktLen(p) > p.h.len
                        THEN trim_back(PktBytes(p), PktLen(p) - p.h.len)
                        ELSE PktBytes(p),
                        t)

(***************************************************************************)
(* Actions.                                                                *)
(***************************************************************************)
\* core c has run handle_received_packet with result r; q is fwdq before
Handled(c, q, r) ==
    /\ r.fwd # <<>> => Len(q[r.fwd[1].to]) < MaxInFlight
    /\ Len(r.st.age) <= MaxAgeLen
    /\ fwdq' = IF r.fwd = <<>> THEN q
               ELSE [q EXCEPT ![r.fwd[1].to] = Append(@, r.fwd[1].pkt)]
    /\ last' = [op |-> r.op, cpu |-> c, l4 |-> r.l4, lim |-> r.lim,
                to |-> IF r.fwd = <<>> THEN <<>> ELSE <<r.fwd[1].to>>]
    \* a call through a null pointer is undefined: the process dies at the
    \* call, or execution goes on after it
    /\ \E fault \in (IF r.op = "null_call" THEN BOOLEAN ELSE {FALSE}) :
           /\ crashed' = fault
           /\ SetSt(c, IF fault THEN r.st ELSE r.st_skip)

\* packet p is steered from core c to its owning core
Steer(c, p, q, owner) ==
    /\ Len(q[owner]) < MaxInFlight
    /\ fwdq' = [q EXCEPT ![owner] = Append(@, p)]
    /\ last' = [op |-> "steer", cpu |-> c, l4 |-> <<>>, lim |-> <<>>,
                to |-> <<owner>>]
    /\ UNCHANGED <<frags, frags_age, frag_mem, frag_timer, crashed>>

\* the L3 receive entry on core c for packet p; q is fwdq without p
Dispatch(c, p, q) ==
    IF handle_on_cpu(c, p) # c
    THEN Steer(c, p, q, handle_on_cpu(c, p))
    ELSE Handled(c, q, handle_received_packet(StOf(c), c, p, now,
                                              hw_features.rx_csum_offload))

\* what the receive actions leave alone
RxFrame_unchanged == UNCHANGED <<now, hw_features, tx, wire, wire_rx, l4_log,
                                 probe, pk, mb, ic, arp,
                   packet_filter>>

\* a frame from the NIC queue of core c
NicRx(c, p) ==
    /\ ~crashed
    /\ Dispatch(c, p, fwdq)
    /\ RxFrame_unchanged

\* core c receives the oldest packet another core forwarded to it
ProxyRx(c) ==
    /\ ~crashed
    /\ fwdq[c] # <<>>
    /\ Dispatch(c, Head(fwdq[c]), [fwdq EXCEPT ![c] = Tail(@)])
    /\ RxFrame_unchanged

\* _frag_timer of core c expires and runs frag_timeout
FragTimerFire(c) ==
    /\ ~crashed
    /\ frag_timer[c].armed
    /\ now >= frag_timer[c].deadline
    /\ SetSt(c, frag_timeout([StOf(c) EXCEPT !.armed = FALSE], now))
    /\ last' = [op |-> "timeout", cpu |-> c, l4 |-> <<>>, lim |-> <<>>,
                to |-> <<>>]
    /\ UNCHANGED <<fwdq, crashed>>
    /\ RxFrame_unchanged

\* TickStep seconds pass; the cores have received what was forwarded to them
Tick ==
    /\ ~crashed
    /\ now + TickStep <= MaxNow
    /\ \A c \in Cores : fwdq[c] = <<>>
    /\ now' = now + TickStep
    /\ last' = [op |-> "tick", cpu |-> 0, l4 |-> <<>>, lim |-> <<>>, to |-> <<>>]
    /\ UNCHANGED <<frags, frags_age, frag_mem, frag_timer, fwdq, hw_features,
                   crashed, tx, wire, wire_rx, l4_log, probe, pk, mb, ic, arp,
                   packet_filter>>

(***************************************************************************)
(* The frames the peers send in the reassembly model: per datagram a first *)
(* fragment, a last fragment, a fragment without payload, and the whole    *)
(* datagram unfragmented.                                                  *)
(***************************************************************************)
FragPayloadLen == 16

\* the body of the datagram whose first byte (its source port) is port
Body(port) == [i \in 1 .. 2 * FragPayloadLen |-> IF i = 1 THEN port ELSE i]

RxFrame(src, dst, id, proto, mf, off, data, bad) ==
    MkPkt(MkHdr(src, dst, id, proto, mf, off, 5, ipv4_hdr_len_min + Len(data)),
          data, bad)

FramesOf(id, proto, port) ==
    { RxFrame(PeerAddr, HostAddr, id, proto, TRUE, 0,
              SubSeq(Body(port), 1, FragPayloadLen), FALSE),
      RxFrame(PeerAddr, HostAddr, id, proto, FALSE, FragPayloadLen \div 8,
              SubSeq(Body(port), FragPayloadLen + 1, 2 * FragPayloadLen), FALSE),
      RxFrame(PeerAddr, HostAddr, id, proto, TRUE, FragPayloadLen \div 8,
              <<>>, FALSE) }

\* the unfragmented datagram
Atomic(dst, id, proto, port, bad) ==
    RxFrame(PeerAddr, dst, id, proto, FALSE, 0,
            SubSeq(Body(port), 1, FragPayloadLen), bad)

\* the identifications the peer uses: their fragment keys hash to one core
RxIds == {1 + i * NCores : i \in 0 .. (MaxId - 1)}

RxFrames ==
    UNION { FramesOf(id, IPPROTO_TCP, 1 + (id \div NCores)) : id \in RxIds }
    \cup { Atomic(HostAddr, 1, IPPROTO_TCP, 1, FALSE),
           Atomic(HostAddr, 1, IPPROTO_TCP, 1, TRUE),
           Atomic(FarAddr, 1, IPPROTO_TCP, 1, FALSE) }

\* the state of the reassembly and of the steering after construction
InitRx ==
    /\ frags = [c \in Cores |-> <<>>]
    /\ frags_age = [c \in Cores |-> <<>>]
    /\ frag_mem = [c \in Cores |-> 0]
    /\ frag_timer = [c \in Cores |-> [armed |-> FALSE, deadline |-> 0]]
    /\ now = 0
    /\ fwdq = [c \in Cores |-> <<>>]
    /\ crashed = FALSE
    /\ last = [op |-> "init", cpu |-> 0, l4 |-> <<>>, lim |-> <<>>, to |-> <<>>]

\* no send has been called
TxIdle ==
    [state |-> "idle", to |-> 0, proto |-> 0, p |-> <<>>, remaining |-> 0,
     offset |-> 0, needs_frag |-> FALSE]

InitTxIdle ==
    /\ tx = TxIdle
    /\ wire = <<>>
    /\ wire_rx = {}
    /\ l4_log = <<>>

InitProbeIdle == probe = [a |-> <<>>, b |-> <<>>, ans |-> <<>>]

InitPkIdle == pk = [frags |-> <<>>, len |-> 0, last |-> "init"]

\* no NIC buffer has been received
MbIdle ==
    [refs |-> <<>>, home |-> <<>>, rel |-> <<>>, moved |-> {}, pkts |-> <<>>,
     tasks |-> [c \in Cores |-> <<>>], running |-> FALSE, last |-> "init"]

\* icmp::received has not been called
IcIdle == [called |-> FALSE, frags |-> <<>>, from |-> 0, to |-> 0, read |-> <<>>]

InitRestIdle ==
    /\ mb = MbIdle
    /\ ic = IcIdle
    /\ arp = <<>>
    /\ packet_filter = FALSE

\* the default mtu of net::hw_features
mtu_default == 1500

HwDefault(rx_csum_offload) ==
    [rx_csum_offload |-> rx_csum_offload, tx_csum_ip_offload |-> FALSE,
     tx_tso |-> FALSE, tx_ufo |-> FALSE, mtu |-> mtu_default]

Init ==
    /\ InitRx
    /\ InitRestIdle
    /\ InitTxIdle
    /\ InitProbeIdle
    /\ InitPkIdle
    /\ \E o \in BOOLEAN : hw_features = HwDefault(o)

\* receive-side scaling: the NIC queue of core c gets the frames core c owns
RssFrames(c) == {p \in RxFrames : handle_on_cpu(c, p) = c}

Next ==
    \/ \E c \in Cores : \E p \in RssFrames(c) : NicRx(c, p)
    \/ \E c \in Cores : ProxyRx(c)
    \/ \E c \in Cores : FragTimerFire(c)
    \/ Tick

Spec == Init /\ [][Next]_vars

(***************************************************************************)
(* Flow steering with frames arriving on any core: a registered protocol   *)
(* (tcp) with two source ports, and a protocol without handler (udp).      *)
(***************************************************************************)
SteerFrames ==
    UNION { { RxFrame(PeerAddr, HostAddr, 1, IPPROTO_TCP, TRUE, 0,
                      SubSeq(Body(port), 1, FragPayloadLen), FALSE),
              RxFrame(PeerAddr, HostAddr, 1, IPPROTO_TCP, FALSE,
                      FragPayloadLen \div 8,
                      SubSeq(Body(port), FragPayloadLen + 1, 2 * FragPayloadLen),
                      FALSE),
              Atomic(HostAddr, 1, IPPROTO_TCP, port, FALSE) } : port \in {1, 2} }
    \cup { RxFrame(PeerAddr, HostAddr, 1, IPPROTO_UDP, TRUE, 0,
                   SubSeq(Body(1), 1, FragPayloadLen), FALSE),
           RxFrame(PeerAddr, HostAddr, 1, IPPROTO_UDP, FALSE,
                   FragPayloadLen \div 8,
                   SubSeq(Body(1), FragPayloadLen + 1, 2 * FragPayloadLen),
                   FALSE),
           Atomic(HostAddr, 1, IPPROTO_UDP, 1, FALSE) }

NextSteer ==
    \/ \E c \in Cores : \E p \in SteerFrames : NicRx(c, p)
    \/ \E c \in Cores : ProxyRx(c)

SpecSteer == Init /\ [][NextSteer]_vars

(***************************************************************************)
(* handle_on_cpu asked about one frame, or about two fragments of one      *)
(* fragment key, on any core and any number of times up to MaxCalls.       *)
(***************************************************************************)
MaxCalls == 2

ProbeProtos == {IPPROTO_ICMP, IPPROTO_TCP, IPPROTO_UDP}

ProbeFrags(id, proto) ==
    { RxFrame(PeerAddr, HostAddr, id, proto, TRUE, 0,
              SubSeq(Body(1), 1, FragPayloadLen), FALSE),
      RxFrame(PeerAddr, HostAddr, id, proto, FALSE, FragPayloadLen \div 8,
              SubSeq(Body(1), FragPayloadLen + 1, 2 * FragPayloadLen), FALSE) }

\* the pairs asked about: an atomic datagram with itself, two fragments of
\* one fragment key
ProbePairs ==
    { <<Atomic(HostAddr, id, proto, port, FALSE),
        Atomic(HostAddr, id, proto, port, FALSE)>> :
          id \in {1, 2}, proto \in ProbeProtos, port \in {1, 2} }
    \cup UNION { ProbeFrags(id, proto) \X ProbeFrags(id, proto) :
                   id \in {1, 2}, proto \in ProbeProtos }

InitProbe ==
    /\ InitRx
    /\ InitRestIdle
    /\ InitTxIdle
    /\ InitPkIdle
    /\ hw_features = HwDefault(FALSE)
    /\ \E pair \in ProbePairs :
           probe = [a |-> pair[1], b |-> pair[2], ans |-> <<>>]

\* core c calls handle_on_cpu for the frame p of the pair
OnCpu(c, p) ==
    /\ Len(probe.ans) < MaxCalls
    /\ probe' = [probe EXCEPT
                    !.ans = Append(@, [cpu |-> c, owner |-> handle_on_cpu(c, p)])]
    /\ UNCHANGED <<frags, frags_age, frag_mem, frag_timer, now, fwdq,
                   hw_features, crashed, last, tx, wire, wire_rx, l4_log, pk, mb, ic, arp,
                   packet_filter>>

NextProbe == \E c \in Cores : \E p \in {probe.a, probe.b} : OnCpu(c, p)

SpecProbe == InitProbe /\ [][NextProbe]_vars

(***************************************************************************)
(* ipv4::send of the sending engine, whose _host_address is TxHost.  A     *)
(* frame on the wire is the IP frame, the next hop it was sent to and      *)
(* offload_info::needs_ip_csum.                                            *)
(***************************************************************************)
TxHost == PeerAddr

\* needs_frag without the test of the length against the MTU
needs_frag_always(len, prot_num, hw) ==
    IF \/ (prot_num = IPPROTO_TCP /\ hw.tx_tso)
       \/ (prot_num = IPPROTO_UDP /\ hw.tx_ufo)
    THEN FALSE
    ELSE TRUE

\* ipv4::needs_frag, for a packet of len bytes
needs_frag(len, prot_num, hw) ==
    IF len + ipv4_hdr_len_min <= hw.mtu THEN FALSE
    ELSE IF \/ (prot_num = IPPROTO_TCP /\ hw.tx_tso)
            \/ (prot_num = IPPROTO_UDP /\ hw.tx_ufo)
         THEN FALSE
         ELSE TRUE

\* the next hop that is the destination itself, whatever the subnet
next_hop_direct(self, to) == to

\* the next hop of a packet to to (lines 193-198)
next_hop(self, to) == IF in_my_netmask(self, to) THEN to ELSE GwAddr

\* the lambda send_pkt of ipv4::send: the frame for the bytes pkt
send_pkt(self, to, proto_num, nf, pkt, remaining, offset, hw) ==
    [pkt |-> [h |-> [src_ip |-> self, dst_ip |-> to, id |-> 0,
                     ip_proto |-> proto_num,
                     frag |-> IF nf
                              THEN FragWord(remaining > 0, offset \div 8) % U16
                              ELSE 0,
                     ihl |-> ipv4_hdr_len_min \div 4,
                     len |-> (ipv4_hdr_len_min + Len(pkt)) % U16],
              data |-> pkt, csum_bad |-> FALSE, reassembled |-> FALSE],
     hop |-> next_hop(self, to),
     needs_ip_csum |-> hw.tx_csum_ip_offload]

\* can_send without the room the IP header takes in the frame
can_send_mtu(mtu, remaining) == MinOf(mtu % U16, remaining)

\* the lambda send_frag, line 251
can_send(mtu, remaining) ==
    MinOf((mtu - ipv4_hdr_len_min) % U16, remaining)

\* send_frag that does not advance the offset
after_send_frag_same_offset(t, can) ==
    [t EXCEPT !.remaining = (@ - can) % U16,
              !.state = IF (t.remaining - can) % U16 = 0 THEN "done" ELSE "frag"]

\* send_info and the state of do_until after send_frag carved can bytes
after_send_frag(t, can) ==
    [t EXCEPT !.remaining = (@ - can) % U16,
              !.offset = (@ + can) % U16,
              !.state = IF (t.remaining - can) % U16 = 0 THEN "done" ELSE "frag"]

\* ipv4::send(to, proto_num, p) up to its first suspension
Send(to, proto_num, p) ==
    /\ tx.state = "idle"
    /\ IF needs_frag(Len(p), proto_num, hw_features)
       THEN /\ tx' = [state |-> IF Len(p) % U16 = 0 THEN "done" ELSE "frag",
                      to |-> to, proto |-> proto_num, p |-> p,
                      remaining |-> Len(p) % U16, offset |-> 0,
                      needs_frag |-> TRUE]
            /\ wire' = wire
       ELSE /\ tx' = [state |-> "done", to |-> to, proto |-> proto_num, p |-> p,
                      remaining |-> 0, offset |-> 0, needs_frag |-> FALSE]
            /\ wire' = Append(wire, send_pkt(TxHost, to, proto_num, FALSE, p,
                                             0, 0, hw_features))
    /\ UNCHANGED <<frags, frags_age, frag_mem, frag_timer, now, fwdq,
                   hw_features, crashed, last, wire_rx, l4_log, probe, pk, mb, ic, arp,
                   packet_filter>>

\* one round of do_until(stop, send_frag)
SendFrag ==
    /\ tx.state = "frag"
    /\ tx' = after_send_frag(tx, can_send(hw_features.mtu, tx.remaining))
    /\ wire' = Append(wire,
                      send_pkt(TxHost, tx.to, tx.proto, tx.needs_frag,
                               share(tx.p, tx.offset,
                                     can_send(hw_features.mtu, tx.remaining)),
                               tx'.remaining, tx.offset, hw_features))
    /\ UNCHANGED <<frags, frags_age, frag_mem, frag_timer, now, fwdq,
                   hw_features, crashed, last, wire_rx, l4_log, probe, pk, mb, ic, arp,
                   packet_filter>>

\* the longest body of the small sends
MaxBody == 24
\* the body of the scenario with an MTU of 1500
BigBody == 2 * mtu_default

\* a body of len bytes; its first four bytes stand for the L4 ports
TxBody(len) == [i \in 1 .. len |-> i % 256]

\* the MTUs of the device: 8, 10 and 16 bytes of payload per frame, and 1500
TxMtus == {28, 30, 36, mtu_default}

TxHw ==
    { [rx_csum_offload |-> FALSE, tx_csum_ip_offload |-> c, tx_tso |-> o[1],
       tx_ufo |-> o[2], mtu |-> m] :
          c \in BOOLEAN, m \in TxMtus,
          o \in {<<FALSE, FALSE>>, <<TRUE, FALSE>>, <<FALSE, TRUE>>} }

InitTx ==
    /\ InitRx
    /\ InitRestIdle
    /\ InitTxIdle
    /\ InitProbeIdle
    /\ InitPkIdle
    /\ hw_features \in TxHw

NextTx ==
    \/ \E to \in {HostAddr, FarAddr} :
           \E proto_num \in {IPPROTO_TCP, IPPROTO_UDP} :
               \E len \in (0 .. MaxBody) \cup {BigBody} :
                   Send(to, proto_num, TxBody(len))
    \/ SendFrag

SpecTx == InitTx /\ [][NextTx]_vars

(***************************************************************************)
(* The round trip: the frames of one send are received by the host, in any *)
(* order, each once.                                                       *)
(***************************************************************************)
\* the frame at position i of the wire arrives at the NIC queue of the core
\* that owns it
WireRx(c, i) ==
    /\ ~crashed
    /\ i \notin wire_rx
    /\ wire[i].hop = HostAddr
    /\ handle_on_cpu(c, wire[i].pkt) = c
    /\ Dispatch(c, wire[i].pkt, fwdq)
    /\ wire_rx' = wire_rx \cup {i}
    /\ l4_log' = l4_log \o last'.l4
    /\ UNCHANGED <<now, hw_features, tx, wire, probe, pk, mb, ic, arp,
                   packet_filter>>

\* core c receives the oldest packet another core forwarded to it
WireProxyRx(c) ==
    /\ ~crashed
    /\ fwdq[c] # <<>>
    /\ Dispatch(c, Head(fwdq[c]), [fwdq EXCEPT ![c] = Tail(@)])
    /\ l4_log' = l4_log \o last'.l4
    /\ UNCHANGED <<now, hw_features, tx, wire, wire_rx, probe, pk, mb, ic, arp,
                   packet_filter>>

\* a body of len bytes whose first byte, its source port, is port
RtBody(len, port) == [i \in 1 .. len |-> IF i = 1 THEN port ELSE i % 256]

RtMtus == {28, 30, 36}

InitRt ==
    /\ InitRx
    /\ InitRestIdle
    /\ InitTxIdle
    /\ InitProbeIdle
    /\ InitPkIdle
    /\ \E m \in RtMtus : hw_features = [HwDefault(FALSE) EXCEPT !.mtu = m]

NextRt ==
    \/ \E len \in 0 .. MaxBody : \E port \in {1, 2} :
           Send(HostAddr, IPPROTO_TCP, RtBody(len, port))
    \/ SendFrag
    \/ \E c \in Cores : \E i \in DOMAIN wire : WireRx(c, i)
    \/ \E c \in Cores : WireProxyRx(c)

SpecRt == InitRt /\ [][NextRt]_vars

(***************************************************************************)
(* net::packet.  pk.frags is the fragment array up to _nr_frags, each      *)
(* fragment the bytes it points to; pk.len is _len.                        *)
(***************************************************************************)
\* the most fragments a packet of the model has at construction
MaxPkInit == 3
\* the largest fragment of a packet at construction
MaxFragSize == 2
\* the most fragments a packet of the model grows to
MaxPkFrags == 4

RECURSIVE Flatten(_)
\* the bytes of a list of fragments, in order
Flatten(fs) == IF fs = <<>> THEN <<>> ELSE Head(fs) \o Flatten(Tail(fs))

RECURSIVE linearize_scan(_, _, _, _, _)
\* the while loop of packet::linearize: <<nr_frags, accum_size>>
linearize_scan(fs, at_frag, desired_size, nr_frags, accum_size) ==
    IF accum_size < desired_size
    THEN linearize_scan(fs, at_frag, desired_size, nr_frags + 1,
                        accum_size + Len(fs[at_frag + nr_frags + 1]))
    ELSE <<nr_frags, accum_size>>

\* std::copy(first, last, d_first) of the fragments from position first on to
\* position d_first = at_frag + 1, when the loop ran at least once: d_first
\* is not after first, and the fragments move down
collapse(fs, at_frag, nr_frags, new_frag) ==
    SubSeq(fs, 1, at_frag) \o <<new_frag>>
        \o SubSeq(fs, at_frag + nr_frags + 1, Len(fs))

\* the same std::copy when the loop did not run (desired_size = 0): d_first
\* is one after first, and _nr_frags -= nr_frags - 1 adds one fragment.  With
\* two or more fragments from at_frag on, d_first lies inside the source
\* range, which std::copy leaves undefined: the fragments move up as by
\* memmove, or each takes the value just written before it
spread(fs, at_frag, new_frag, overlap) ==
    SubSeq(fs, 1, at_frag) \o <<new_frag>>
        \o (IF overlap = "forward"
            THEN [i \in 1 .. (Len(fs) - at_frag) |-> fs[at_frag + 1]]
            ELSE SubSeq(fs, at_frag + 1, Len(fs)))

\* the fragment array after linearize, scan = <<nr_frags, accum_size>>
linearize_frags(fs, at_frag, scan, overlap) ==
    IF scan[1] = 0
    THEN spread(fs, at_frag, <<>>, overlap)
    ELSE collapse(fs, at_frag, scan[1],
                  Flatten(SubSeq(fs, at_frag + 1, at_frag + scan[1])))

\* packet::linearize(at_frag, desired_size)
linearize(pkt, at_frag, desired_size, overlap) ==
    [pkt EXCEPT
        !.frags = linearize_frags(pkt.frags, at_frag,
                                  linearize_scan(pkt.frags, at_frag,
                                                 desired_size, 0, 0),
                                  overlap),
        !.last = "linearize"]

\* the outcomes of the std::copy of linearize
Overlaps(pkt, at_frag, desired_size) ==
    IF desired_size = 0 /\ Len(pkt.frags) - at_frag >= 2
    THEN {"memmove", "forward"}
    ELSE {"memmove"}

\* the bytes the packet holds from fragment at_frag on
BytesFrom(pkt, at_frag) ==
    Len(Flatten(SubSeq(pkt.frags, at_frag + 1, Len(pkt.frags))))

Linearize(at_frag, desired_size) ==
    /\ at_frag < Len(pk.frags)
    /\ desired_size <= BytesFrom(pk, at_frag)
    /\ \E overlap \in Overlaps(pk, at_frag, desired_size) :
           /\ Len(linearize(pk, at_frag, desired_size, overlap).frags) <= MaxPkFrags
           /\ pk' = linearize(pk, at_frag, desired_size, overlap)
    /\ UNCHANGED <<frags, frags_age, frag_mem, frag_timer, now, fwdq,
                   hw_features, crashed, last, tx, wire, wire_rx, l4_log, probe,
                   mb, ic, arp,
                   packet_filter>>

\* packet::free_on_cpu(cpu): the returned packet is a copy of the impl
FreeOnCpu(cpu) ==
    /\ pk.last # "free_on_cpu"
    /\ pk' = [pk EXCEPT !.last = "free_on_cpu"]
    /\ UNCHANGED <<frags, frags_age, frag_mem, frag_timer, now, fwdq,
                   hw_features, crashed, last, tx, wire, wire_rx, l4_log, probe,
                   mb, ic, arp,
                   packet_filter>>

RECURSIVE FragsOfSizes(_, _)
\* fragments of the given sizes whose bytes are numbered from first on
FragsOfSizes(sizes, first) ==
    IF sizes = <<>> THEN <<>>
    ELSE <<[i \in 1 .. Head(sizes) |-> first + i - 1]>>
             \o FragsOfSizes(Tail(sizes), first + Head(sizes))

PkSizes == UNION { [1 .. n -> 1 .. MaxFragSize] : n \in 1 .. MaxPkInit }

InitPkt ==
    /\ InitRx
    /\ InitRestIdle
    /\ InitTxIdle
    /\ InitProbeIdle
    /\ hw_features = HwDefault(FALSE)
    /\ \E sizes \in PkSizes :
           pk = [frags |-> FragsOfSizes(sizes, 1), len |-> SeqSum(sizes),
                 last |-> "new"]

NextPkt ==
    \/ \E at_frag \in 0 .. (MaxPkFrags - 1) :
           \E desired_size \in 0 .. (MaxPkInit * MaxFragSize) :
               Linearize(at_frag, desired_size)
    \/ \E cpu \in Cores : FreeOnCpu(cpu)

SpecPkt == InitPkt /\ [][NextPkt]_vars

(***************************************************************************)
(* NIC buffers and deleters.  A deleter is <<"none">>, the release hook    *)
(* <<"hook", b>> of NIC buffer b, the wrapper <<"on_cpu", cpu, d>> that    *)
(* free_on_cpu makes, the chain <<"buf", d>> that linearize makes, or the  *)
(* chain <<"cat", d1, d2>> of two packets appended.  mb.refs[b] is the     *)
(* reference count of the hook of b, mb.home[b] the core that received b,  *)
(* mb.rel[b] the runs of its hook (the core, and whether a submitted task  *)
(* ran it), mb.moved the buffers handed to another core, mb.pkts the live  *)
(* packets, mb.tasks[c] the deleters submitted to core c for destruction   *)
(* and mb.running whether the step runs such a task.                       *)
(***************************************************************************)
\* the buffers the NIC hands out
MaxBufs == 2
\* the most cross-core hand-offs of one packet
MaxHops == 1

NoDeleter == <<"none">>

RECURSIVE Leaves(_)
\* the buffers whose hooks a deleter holds, wrapped or not
Leaves(d) ==
    CASE d[1] = "none" -> <<>>
      [] d[1] = "hook" -> <<d[2]>>
      [] d[1] = "on_cpu" -> Leaves(d[3])
      [] d[1] = "buf" -> Leaves(d[2])
      [] d[1] = "cat" -> Leaves(d[2]) \o Leaves(d[3])

RECURSIVE Steps(_)
\* what the destruction of a deleter does on the core it happens on, in
\* order: it drops the reference to a hook, or it submits a deleter to a core
Steps(d) ==
    CASE d[1] = "none" -> <<>>
      [] d[1] = "hook" -> <<d>>
      [] d[1] = "on_cpu" -> <<d>>
      [] d[1] = "buf" -> Steps(d[2])
      [] d[1] = "cat" -> Steps(d[2]) \o Steps(d[3])

\* the reference to the hook of b is dropped on core x: the hook runs when
\* the count reaches 0
drop_ref(m, b, x) ==
    [m EXCEPT !.refs[b] = @ - 1,
              !.rel[b] = IF m.refs[b] - 1 = 0
                         THEN Append(@, [cpu |-> x, task |-> m.running])
                         ELSE @]

RECURSIVE destroy_steps(_, _, _)
destroy_steps(m, steps, x) ==
    IF steps = <<>> THEN m
    ELSE destroy_steps(
             IF Head(steps)[1] = "hook"
             THEN drop_ref(m, Head(steps)[2], x)
             ELSE [m EXCEPT !.tasks[Head(steps)[2]] = Append(@, Head(steps)[3])],
             Tail(steps), x)

\* a deleter is destroyed on core x
destroy(m, d, x) == destroy_steps(m, Steps(d), x)

RECURSIVE share_refs(_, _)
\* deleter::share, for every hook the deleter holds
share_refs(m, bs) ==
    IF bs = <<>> THEN m
    ELSE share_refs([m EXCEPT !.refs[Head(bs)] = @ + 1], Tail(bs))

\* packet::free_on_cpu without the wrapper
free_on_cpu_same(d, cpu) == d

\* packet::free_on_cpu(cpu): the deleter of the returned packet
free_on_cpu(d, cpu) == <<"on_cpu", cpu, d>>

\* the deleter of linearize without the old deleter in its chain
linearize_deleter_fresh(d) == <<"buf", NoDeleter>>

\* packet::linearize, line 35: the new deleter chains the old one
linearize_deleter(d) == <<"buf", d>>

\* packet::append: the deleters are chained
append_deleter(d1, d2) ==
    IF d1 = NoDeleter THEN d2
    ELSE IF d2 = NoDeleter THEN d1 ELSE <<"cat", d1, d2>>

RECURSIVE CatAll(_)
CatAll(ds) ==
    IF ds = <<>> THEN NoDeleter
    ELSE append_deleter(Head(ds), CatAll(Tail(ds)))

\* a packet: the core it is on, its deleter, the buffers its fragments
\* point into, where it is (rx, l4, entry), and its role: a frame from the
\* NIC (data), the header share of a reassembly entry, or a reassembled
\* datagram
MbPkt(cpu, d, bufs, at, role, hops) ==
    [cpu |-> cpu, del |-> d, bufs |-> bufs, at |-> at, role |-> role,
     hops |-> hops]

SeqWithout(q, i) == SubSeq(q, 1, i - 1) \o SubSeq(q, i + 1, Len(q))

RECURSIVE SelectIdx(_, _, _)
\* the positions from i on of the packets of q on core c in a reassembly
\* entry with the given role
SelectIdx(q, i, want) ==
    IF i > Len(q) THEN <<>>
    ELSE (IF q[i].at = "entry" /\ q[i].cpu = want[1]
             /\ (want[2] = "any" \/ q[i].role = want[2])
          THEN <<i>> ELSE <<>>) \o SelectIdx(q, i + 1, want)

RECURSIVE DelsAt(_, _)
DelsAt(q, idx) ==
    IF idx = <<>> THEN <<>> ELSE <<q[Head(idx)].del>> \o DelsAt(q, Tail(idx))

RECURSIVE BufsAt(_, _)
BufsAt(q, idx) ==
    IF idx = <<>> THEN {} ELSE q[Head(idx)].bufs \cup BufsAt(q, Tail(idx))

\* the packets of q that are not in the reassembly entry of core c
NotInEntry(q, c) ==
    SelectSeq(q, LAMBDA h : ~(h.at = "entry" /\ h.cpu = c))

MbStep(m, op) == mb' = [m EXCEPT !.last = op, !.running = FALSE]

RECURSIVE Range(_)
Range(q) == IF q = <<>> THEN {} ELSE {Head(q)} \cup Range(Tail(q))

MbUnchanged ==
    UNCHANGED <<frags, frags_age, frag_mem, frag_timer, now, fwdq,
                hw_features, crashed, last, tx, wire, wire_rx, l4_log, probe,
                pk, ic, arp, packet_filter>>

\* net_device::process_packets for one rte_mbuf on core c: the packet is
\* made with the hook of the buffer; with rx_csum_offload a buffer flagged
\* bad is dropped, else the packet goes to l2receive
ProcessPackets(c, bad) ==
    /\ Len(mb.refs) < MaxBufs
    /\ IF hw_features.rx_csum_offload /\ bad
       THEN MbStep(destroy([mb EXCEPT !.refs = Append(@, 1),
                                      !.home = Append(@, c),
                                      !.rel = Append(@, <<>>)],
                           <<"hook", Len(mb.refs) + 1>>, c),
                   "csum_drop")
       ELSE MbStep([mb EXCEPT
                       !.refs = Append(@, 1),
                       !.home = Append(@, c),
                       !.rel = Append(@, <<>>),
                       !.pkts = Append(@, MbPkt(c, <<"hook", Len(mb.refs) + 1>>,
                                                {Len(mb.refs) + 1}, "rx",
                                                "data", 0))],
                   "l2receive")
    /\ MbUnchanged

\* the packet at position i is forwarded to core d: its hook is retargeted
\* to the core it is on
MbForward(i, d) ==
    /\ mb.pkts[i].at = "rx"
    /\ mb.pkts[i].cpu # d
    /\ mb.pkts[i].hops < MaxHops
    /\ MbStep([mb EXCEPT
                  !.pkts[i] = [@ EXCEPT !.del = free_on_cpu(@, mb.pkts[i].cpu),
                                        !.cpu = d,
                                        !.hops = @ + 1],
                  !.moved = @ \cup Range(Leaves(mb.pkts[i].del))],
              "forward")
    /\ MbUnchanged

\* the packet at position i is dropped by the receive path, or L4 is done
\* with it
MbDrop(i) ==
    /\ mb.pkts[i].at \in {"rx", "l4"}
    /\ MbStep(destroy([mb EXCEPT !.pkts = SeqWithout(@, i)],
                      mb.pkts[i].del, mb.pkts[i].cpu),
              "drop")
    /\ MbUnchanged

\* the packet at position i is handed to ip_protocol::received
MbDeliver(i) ==
    /\ mb.pkts[i].at = "rx"
    /\ MbStep([mb EXCEPT !.pkts[i].at = "l4"], "deliver")
    /\ MbUnchanged

\* the packet at position i is linearized
MbLinearize(i) ==
    /\ mb.pkts[i].at = "rx"
    /\ mb.pkts[i].del[1] # "buf"
    /\ MbStep([mb EXCEPT !.pkts[i].del = linearize_deleter(@)], "linearize")
    /\ MbUnchanged

\* ipv4::frag::merge of the packet at position i: the entry holds the
\* packet as data and, for the fragment at offset 0, a share of it as header
MbMerge(i, first) ==
    /\ mb.pkts[i].at = "rx"
    /\ mb.pkts[i].role = "data"
    /\ MbStep(IF first
              THEN share_refs([mb EXCEPT
                                  !.pkts = Append([@ EXCEPT ![i].at = "entry"],
                                                  [mb.pkts[i] EXCEPT
                                                      !.at = "entry",
                                                      !.role = "header"])],
                              Leaves(mb.pkts[i].del))
              ELSE [mb EXCEPT !.pkts[i].at = "entry"],
              "merge")
    /\ MbUnchanged

RECURSIVE destroy_all(_, _, _)
destroy_all(m, ds, x) ==
    IF ds = <<>> THEN m
    ELSE destroy_all(destroy(m, Head(ds), x), Tail(ds), x)

\* frag_drop of the entry of core c by frag_timeout or frag_limit_mem
MbEntryDrop(c) ==
    /\ SelectIdx(mb.pkts, 1, <<c, "any">>) # <<>>
    /\ MbStep(destroy_all([mb EXCEPT !.pkts = NotInEntry(@, c)],
                          DelsAt(mb.pkts, SelectIdx(mb.pkts, 1, <<c, "any">>)),
                          c),
              "entry_drop")
    /\ MbUnchanged

\* the entry of core c is complete and its datagram belongs to core d: the
\* data goes to L4 and the header dies with the entry (d = c), or header
\* and data are appended and forwarded to d
MbEntryComplete(c, d) ==
    /\ SelectIdx(mb.pkts, 1, <<c, "data">>) # <<>>
    /\ SelectIdx(mb.pkts, 1, <<c, "header">>) # <<>>
    /\ IF d = c
       THEN MbStep(destroy_all(
                       [mb EXCEPT !.pkts =
                           Append(NotInEntry(@, c),
                                  MbPkt(c,
                                        CatAll(DelsAt(mb.pkts,
                                            SelectIdx(mb.pkts, 1, <<c, "data">>))),
                                        BufsAt(mb.pkts,
                                            SelectIdx(mb.pkts, 1, <<c, "data">>)),
                                        "l4", "datagram", MaxHops))],
                       DelsAt(mb.pkts, SelectIdx(mb.pkts, 1, <<c, "header">>)),
                       c),
                   "complete")
       ELSE MbStep([mb EXCEPT
                    !.moved = @ \cup BufsAt(mb.pkts,
                                            SelectIdx(mb.pkts, 1, <<c, "any">>)),
                    !.pkts =
                       Append(NotInEntry(@, c),
                              MbPkt(d,
                                    free_on_cpu(
                                        CatAll(DelsAt(mb.pkts,
                                            SelectIdx(mb.pkts, 1, <<c, "header">>)
                                            \o SelectIdx(mb.pkts, 1, <<c, "data">>))),
                                        c),
                                    BufsAt(mb.pkts,
                                           SelectIdx(mb.pkts, 1, <<c, "any">>)),
                                    "rx", "datagram", MaxHops))],
                   "complete_forward")
    /\ MbUnchanged

\* core c runs the oldest task submitted to it: the deleter is destroyed
MbRunTask(c) ==
    /\ mb.tasks[c] # <<>>
    /\ MbStep(destroy([mb EXCEPT !.tasks[c] = Tail(@), !.running = TRUE],
                      Head(mb.tasks[c]), c),
              "task")
    /\ MbUnchanged

InitMb ==
    /\ InitRx
    /\ InitTxIdle
    /\ InitProbeIdle
    /\ InitPkIdle
    /\ InitRestIdle
    /\ \E o \in BOOLEAN : hw_features = HwDefault(o)

NextMb ==
    \/ \E c \in Cores : \E bad \in BOOLEAN : ProcessPackets(c, bad)
    \/ \E i \in DOMAIN mb.pkts : \E d \in Cores : MbForward(i, d)
    \/ \E i \in DOMAIN mb.pkts : MbDrop(i)
    \/ \E i \in DOMAIN mb.pkts : MbDeliver(i)
    \/ \E i \in DOMAIN mb.pkts : MbLinearize(i)
    \/ \E i \in DOMAIN mb.pkts : \E first \in BOOLEAN : MbMerge(i, first)
    \/ \E c \in Cores : MbEntryDrop(c)
    \/ \E c, d \in Cores : MbEntryComplete(c, d)
    \/ \E c \in Cores : MbRunTask(c)

SpecMb == InitMb /\ [][NextMb]_vars

(***************************************************************************)
(* Properties of the reassembly accounting (Spec).                         *)
(***************************************************************************)
\* C1: on every core, after every receive step, eviction, completion and
\* timer sweep, _frag_mem is the sum of mem_size over the entries of _frags
C1_FragMemIsSum ==
    \A c \in Cores :
        frag_mem[c] =
            SumOver([k \in DOMAIN frags[c] |-> frags[c][k].mem_size],
                    DOMAIN frags[c]) % U32

\* C1 witness: frag_limit_mem evicted on a core that then merged a fragment
\* and still holds bytes
C1_Witness ==
    /\ last.lim # <<>>
    /\ last.lim[1].post < last.lim[1].pre
    /\ frag_mem[last.cpu] > 0
    /\ DOMAIN frags[last.cpu] # {}

\* C2 as stated: whenever frag_limit_mem returns, _frag_mem <= frag_low_thresh
\* or the table is empty, whatever _frag_mem was at the call
C2_AsStated ==
    last.lim # <<>> =>
        (last.lim[1].post <= frag_low_thresh \/ last.lim[1].empty)

\* C2 amended: when frag_limit_mem is called with _frag_mem above
\* frag_high_thresh it returns with _frag_mem <= frag_low_thresh or with an
\* empty table; called with _frag_mem <= frag_high_thresh it evicts nothing
\* and _frag_mem keeps its value, which may lie above frag_low_thresh
C2_Hysteresis ==
    last.lim # <<>> =>
        /\ last.lim[1].pre > frag_high_thresh =>
               (last.lim[1].post <= frag_low_thresh \/ last.lim[1].empty)
        /\ last.lim[1].pre <= frag_high_thresh =>
               last.lim[1].post = last.lim[1].pre

\* C2 witness: frag_limit_mem was called above the high threshold and
\* returned with entries left in the table
C2_Witness ==
    /\ last.lim # <<>>
    /\ last.lim[1].pre > frag_high_thresh
    /\ last.lim[1].post <= frag_low_thresh
    /\ ~last.lim[1].empty

\* C3: right after frag_timeout has run on a core, no entry left in its table
\* has rx_time + 30 s < now
C3_NoExpiredSurvivor ==
    last.op = "timeout" =>
        \A k \in DOMAIN frags[last.cpu] :
            ~(frags[last.cpu][k].rx_time + frag_timeout_s < now)

(***************************************************************************)
(* Properties of the flow steering (SpecProbe, SpecSteer).                 *)
(***************************************************************************)
\* C8: the same atomic datagram, and two fragments of one fragment key, get
\* the same owning core from handle_on_cpu on every call and on every core,
\* for registered and unregistered protocols
C8_OwnerIsFunctionOfPacket ==
    \A i, j \in DOMAIN probe.ans : probe.ans[i].owner = probe.ans[j].owner

\* C9: ip_protocol::received is called for a datagram only on the core that
\* the handler's forward returns for that datagram, for an atomic datagram
\* and for a reassembled one
C9_ReceivedOnForwardCore ==
    last.l4 # <<>> =>
        last.l4[1].cpu =
            l4_forward(last.l4[1].payload, 0, last.l4[1].from, last.l4[1].to)

\* C9 witness: a datagram reassembled on the core of its fragment key was
\* forwarded and is delivered on another core
C9_Witness ==
    /\ last.l4 # <<>>
    /\ Len(last.l4[1].payload) = 2 * FragPayloadLen
    /\ last.l4[1].cpu #
           frag_id_hash(<<last.l4[1].from, last.l4[1].to, 1, last.l4[1].proto>>)
               % NCores

(***************************************************************************)
(* Properties of ipv4::send (SpecTx) and of the round trip (SpecRt).       *)
(***************************************************************************)
\* the fragment offset field of a header, in units of 8 bytes
frag_off_field(h) == h.frag % 2^mf_shift

\* the smallest number of pieces of at most b bytes that make up a bytes
CeilDiv(a, b) == (a + b - 1) \div b

\* C4: when send fragmented the body and the host has received every frame
\* of it once, in any order, exactly one reassembly has completed and the
\* payload it delivered is the body
C4_RoundTrip ==
    /\ Len(l4_log) <= 1
    /\ (/\ tx.state = "done"
        /\ tx.needs_frag
        /\ wire_rx = DOMAIN wire
        /\ \A c \in Cores : fwdq[c] = <<>>)
       => (Len(l4_log) = 1 /\ l4_log[1].payload = tx.p)

\* C5: a send with body length + 20 <= MTU emits exactly one frame, with
\* MF = 0 and fragment offset 0
C5_OneFrame ==
    (tx.state = "done" /\ Len(tx.p) + ipv4_hdr_len_min <= hw_features.mtu)
    => /\ Len(wire) = 1
       /\ ~hdr_mf(wire[1].pkt.h)
       /\ frag_off_field(wire[1].pkt.h) = 0
       /\ wire[1].pkt.data = tx.p

\* C5 witness: the send of a body that fills the MTU exactly is done
C5_Witness ==
    /\ tx.state = "done"
    /\ Len(tx.p) + ipv4_hdr_len_min = hw_features.mtu
    /\ Len(wire) = 1

\* the protocol of the send has its segmentation offload enabled
TxOffload ==
    \/ (tx.proto = IPPROTO_TCP /\ hw_features.tx_tso)
    \/ (tx.proto = IPPROTO_UDP /\ hw_features.tx_ufo)

S6_Sent ==
    /\ tx.state = "done"
    /\ Len(tx.p) = BigBody
    /\ tx.proto = IPPROTO_UDP
    /\ hw_features.mtu = mtu_default
    /\ ~hw_features.tx_ufo

\* C7 as stated: the 3000-byte send emits exactly two frames, of 1500 and
\* 1540 bytes, the first with MF = 1 and offset 0, the second with MF = 0
\* and offset field 185
C7_AsStated ==
    S6_Sent
    => /\ Len(wire) = 2
       /\ PktLen(wire[1].pkt) = 1500 /\ PktLen(wire[2].pkt) = 1540
       /\ hdr_mf(wire[1].pkt.h) /\ frag_off_field(wire[1].pkt.h) = 0
       /\ ~hdr_mf(wire[2].pkt.h) /\ frag_off_field(wire[2].pkt.h) = 185

\* C7 amended: the 3000-byte send emits exactly three frames, of 1500, 1500
\* and 60 bytes, with MF = 1, 1, 0 and offset fields 0, 185, 370
C7_ThreeFrames ==
    S6_Sent
    => /\ Len(wire) = 3
       /\ PktLen(wire[1].pkt) = 1500 /\ wire[1].pkt.h.len = 1500
       /\ PktLen(wire[2].pkt) = 1500 /\ wire[2].pkt.h.len = 1500
       /\ PktLen(wire[3].pkt) = 60 /\ wire[3].pkt.h.len = 60
       /\ hdr_mf(wire[1].pkt.h) /\ frag_off_field(wire[1].pkt.h) = 0
       /\ hdr_mf(wire[2].pkt.h) /\ frag_off_field(wire[2].pkt.h) = 185
       /\ ~hdr_mf(wire[3].pkt.h) /\ frag_off_field(wire[3].pkt.h) = 370

\* C7 witness: the 3000-byte send is done and its last frame is on the wire
C7_Witness == S6_Sent /\ Len(wire) = 3

(***************************************************************************)
(* Properties of net::packet (SpecPkt).                                    *)
(***************************************************************************)
\* C10: after linearize(at_frag, desired_size), for every at_frag below
\* _nr_frags and every desired_size from 0 to the bytes held from at_frag
\* on, the total length of the packet is the sum of its fragment sizes
C10_LenIsSumOfFrags ==
    pk.last = "linearize" => pk.len = Len(Flatten(pk.frags))

(***************************************************************************)
(* Properties of the release hooks (SpecMb).                               *)
(***************************************************************************)
\* buffer b is referenced: a live packet points into it or holds its hook,
\* or a submitted deleter holds its hook
MbReferenced(b) ==
    \/ \E i \in DOMAIN mb.pkts :
           b \in mb.pkts[i].bufs \/ b \in Range(Leaves(mb.pkts[i].del))
    \/ \E c \in Cores : \E i \in DOMAIN mb.tasks[c] :
           b \in Range(Leaves(mb.tasks[c][i]))

\* C11: the release hook of every buffer runs at most once, not while a
\* packet still points into the buffer, and it has run once when nothing
\* references the buffer any more, whether the packet was dropped,
\* delivered, held by a reassembly entry, linearized or forwarded
C11_ReleasedExactlyOnce ==
    \A b \in DOMAIN mb.refs :
        /\ Len(mb.rel[b]) <= 1
        /\ mb.rel[b] # <<>> => \A i \in DOMAIN mb.pkts : b \notin mb.pkts[i].bufs
        /\ ~MbReferenced(b) => Len(mb.rel[b]) = 1

\* C11 witness: every buffer has been received and released, the last one
\* by a task after its packet had been linearized or forwarded
C11_Witness ==
    /\ Len(mb.refs) = MaxBufs
    /\ mb.pkts = <<>>
    /\ mb.last = "task"
    /\ \A b \in DOMAIN mb.refs : Len(mb.rel[b]) = 1

\* C12: the hook of a buffer whose packet was retargeted with free_on_cpu
\* and handed to another core runs on the core that received the buffer, in
\* a task submitted to that core; every buffer returns to the pool of the
\* core that received it
C12_ReleasedOnHomeCore ==
    \A b \in DOMAIN mb.refs : \A i \in DOMAIN mb.rel[b] :
        /\ mb.rel[b][i].cpu = mb.home[b]
        /\ b \in mb.moved => mb.rel[b][i].task

\* C12 witness: a buffer whose packet had been handed to another core has
\* been released by a task
C12_Witness ==
    /\ mb.last = "task"
    /\ \E b \in mb.moved : mb.rel[b] # <<>> /\ ~MbReferenced(b)

(***************************************************************************)
(* Properties of the completion of a reassembly (SpecSteer).               *)
(***************************************************************************)
\* the step is handle_received_packet of frame p on core c, and p completes
\* an entry
C13_Completes(c, p, r) ==
    /\ last'.op = "complete"
    /\ last'.cpu = c
    /\ handle_on_cpu(c, p) = c
    /\ r.op = "complete"
    /\ last' = [op |-> "complete", cpu |-> c, l4 |-> r.l4, lim |-> r.lim,
                to |-> IF r.fwd = <<>> THEN <<>> ELSE <<r.fwd[1].to>>]

\* packet pkt, forwarded to core d, is delivered there and not forwarded again
C13_DeliveredThere(d, pkt) ==
    /\ handle_on_cpu(d, pkt) = d
    /\ \A o \in BOOLEAN :
           /\ handle_received_packet(StOf(d), d, pkt, now, o).op = "deliver"
           /\ Len(handle_received_packet(StOf(d), d, pkt, now, o).l4) = 1
           /\ handle_received_packet(StOf(d), d, pkt, now, o).fwd = <<>>

\* the datagram is handed to the handler on core c, or to exactly one other
\* core that hands it to the handler; q is fwdq without the fragment
C13_Once(c, q) ==
    \/ /\ Len(last'.l4) = 1
       /\ last'.l4[1].cpu = c
       /\ last'.to = <<>>
       /\ fwdq' = q
    \/ /\ last'.l4 = <<>>
       /\ \E d \in Cores \ {c} :
              /\ last'.to = <<d>>
              /\ \A e \in Cores \ {d} : fwdq'[e] = q[e]
              /\ Len(fwdq'[d]) = Len(q[d]) + 1
              /\ SubSeq(fwdq'[d], 1, Len(q[d])) = q[d]
              /\ C13_DeliveredThere(d, fwdq'[d][Len(fwdq'[d])])

\* lim is the state of core c after frag_limit_mem, k the completed key
C13_Removed(c, k, lim) ==
    /\ k \notin DOMAIN frags'[c]
    /\ k \notin Range(frags_age'[c])
    /\ frag_mem'[c] = U32sub(lim.mem, FragAt(lim, k).mem_size)
    /\ DOMAIN lim.frags = {k} => frag_mem'[c] = 0

C13_Step(c, p) ==
    C13_Completes(c, p, handle_received_packet(StOf(c), c, p, now,
                                               hw_features.rx_csum_offload))
    => /\ \/ C13_Once(c, fwdq)
          \/ /\ fwdq[c] # <<>>
             /\ Head(fwdq[c]) = p
             /\ C13_Once(c, [fwdq EXCEPT ![c] = Tail(@)])
       /\ C13_Removed(c, ipv4_frag_id(p.h), frag_limit_mem(StOf(c)))

\* C13: the step in which a fragment completes an entry hands the datagram
\* to the L4 handler once on this core, or forwards it to exactly one other
\* core that delivers it without forwarding it again; the same step removes
\* the key from the table and from the age list and reduces frag_mem by the
\* mem_size of the entry, to 0 when it was the only entry
C13_CompletionDeliversOnce ==
    [][\A c \in Cores : \A p \in SteerFrames : C13_Step(c, p)]_vars

\* C13 witness: a completed datagram was forwarded to another core, and the
\* table of the completing core is empty with frag_mem = 0
C13_Witness ==
    /\ last.op = "complete"
    /\ last.to # <<>>
    /\ last.l4 = <<>>
    /\ frags[last.cpu] = <<>>
    /\ frags_age[last.cpu] = <<>>
    /\ frag_mem[last.cpu] = 0

(***************************************************************************)
(* The reassembly timer with one incomplete datagram (SpecTimeout): the    *)
(* first fragment of a datagram arrives while the tables are empty, and    *)
(* nothing else arrives.  The clock advances in seconds; a timer callback  *)
(* runs when the clock has reached its deadline, at most TimerLate seconds *)
(* late.                                                                   *)
(***************************************************************************)
MaxTimeoutNow == 70
TimerLate == 1

\* the fragment with MF = 1 and offset 0
FirstFragment ==
    RxFrame(PeerAddr, HostAddr, 1, IPPROTO_TCP, TRUE, 0,
            SubSeq(Body(1), 1, FragPayloadLen), FALSE)

\* the fragment arrives on its owning core while no entry exists
TimeoutRx(c) ==
    /\ \A d \in Cores : DOMAIN frags[d] = {}
    /\ handle_on_cpu(c, FirstFragment) = c
    /\ NicRx(c, FirstFragment)

\* one second passes; no timer is overdue by TimerLate
TimeoutTick ==
    /\ now < MaxTimeoutNow
    /\ \A c \in Cores :
           frag_timer[c].armed => now < frag_timer[c].deadline + TimerLate
    /\ now' = now + 1
    /\ last' = [op |-> "tick", cpu |-> 0, l4 |-> <<>>, lim |-> <<>>, to |-> <<>>]
    /\ UNCHANGED <<frags, frags_age, frag_mem, frag_timer, fwdq, hw_features,
                   crashed, tx, wire, wire_rx, l4_log, probe, pk, mb, ic, arp,
                   packet_filter>>

NextTimeout ==
    \/ \E c \in Cores : TimeoutRx(c)
    \/ \E c \in Cores : FragTimerFire(c)
    \/ TimeoutTick

SpecTimeout == Init /\ [][NextTimeout]_vars

\* no callback of the reassembly timer is due
C14_TimerIdle ==
    \A c \in Cores : frag_timer[c].armed => now < frag_timer[c].deadline

\* C14: when a fragment with MF = 1 and offset 0 has created the only entry
\* and nothing else arrives, then from 31 s after its arrival on, once the
\* timer callback that was due has run, the entry is gone, the table is
\* empty and frag_mem = 0
C14_GoneAfter31s ==
    \A c \in Cores :
        (C14_TimerIdle /\ \E k \in DOMAIN frags[c] : now >= frags[c][k].rx_time + 31)
            => FALSE

\* the entry is gone once a callback has run with the clock past 60 s after
\* the arrival
C14_GoneAfter61s ==
    \A c \in Cores : \A k \in DOMAIN frags[c] :
        C14_TimerIdle => now < frags[c][k].rx_time + 2 * frag_timeout_s + TimerLate

(***************************************************************************)
(* frag_limit_mem called on the tables a core can hold (SpecLim): up to    *)
(* MaxLimAge keys in the age list, entries that hold no byte, a last       *)
(* fragment, or a first fragment with its header.                          *)
(***************************************************************************)
MaxLimAge == 3
MaxLimIds == 3

LimKeys == {<<PeerAddr, HostAddr, id, IPPROTO_TCP>> : id \in 1 .. MaxLimIds}

LimSizes == {0, FragPayloadLen, FragPayloadLen + ipv4_hdr_len_min}

LimAges == UNION {[1 .. n -> LimKeys] : n \in 0 .. MaxLimAge}

\* the tables whose keys are in the age list age
LimTables(age) ==
    UNION {[ks -> {[DefaultFrag EXCEPT !.mem_size = m] : m \in LimSizes}] :
               ks \in SUBSET Range(age)}

LimMem(tab) == SumOver([k \in DOMAIN tab |-> tab[k].mem_size], DOMAIN tab) % U32

InitLim ==
    /\ \E age \in LimAges : \E tab \in LimTables(age) :
           /\ frags = [c \in Cores |-> IF c = 0 THEN tab ELSE <<>>]
           /\ frags_age = [c \in Cores |-> IF c = 0 THEN age ELSE <<>>]
           /\ frag_mem = [c \in Cores |-> IF c = 0 THEN LimMem(tab) ELSE 0]
    /\ frag_timer = [c \in Cores |-> [armed |-> FALSE, deadline |-> 0]]
    /\ now = 0
    /\ fwdq = [c \in Cores |-> <<>>]
    /\ crashed = FALSE
    /\ last = [op |-> "init", cpu |-> 0, l4 |-> <<>>, lim |-> <<>>, to |-> <<>>]
    /\ InitRestIdle
    /\ InitTxIdle
    /\ InitProbeIdle
    /\ InitPkIdle
    /\ hw_features = HwDefault(FALSE)

\* core c calls frag_limit_mem
LimCall(c) ==
    /\ SetSt(c, frag_limit_mem(StOf(c)))
    /\ last' = [op |-> "limit", cpu |-> c, l4 |-> <<>>, to |-> <<>>,
                lim |-> <<[pre |-> frag_mem[c],
                           post |-> frag_limit_mem(StOf(c)).mem,
                           empty |-> DOMAIN frag_limit_mem(StOf(c)).frags = {}]>>]
    /\ UNCHANGED <<fwdq, crashed>>
    /\ RxFrame_unchanged

NextLim == \E c \in Cores : LimCall(c)

SpecLim == InitLim /\ [][NextLim]_vars

\* the total mem_size of the entries named by the first n keys of the age list
C15_PrefixMem(st, n) ==
    SumOver([k \in DOMAIN st.frags |-> st.frags[k].mem_size],
            {st.age[i] : i \in 1 .. n} \cap DOMAIN st.frags)

\* the first n keys are the shortest prefix that reaches the target, or the
\* whole list when no prefix does
C15_Shortest(st, n, target) ==
    /\ \A m \in 0 .. (n - 1) : C15_PrefixMem(st, m) < target
    /\ n < Len(st.age) => C15_PrefixMem(st, n) >= target

\* state r is state st with the first n keys of the age list evicted
C15_Evicted(st, r, n) ==
    /\ r.age = SubSeq(st.age, n + 1, Len(st.age))
    /\ DOMAIN r.frags = DOMAIN st.frags \ {st.age[i] : i \in 1 .. n}
    /\ \A k \in DOMAIN r.frags : r.frags[k] = st.frags[k]

\* the state of core c after the step
C15_Post(c) ==
    [frags |-> frags'[c], age |-> frags_age'[c], mem |-> frag_mem'[c],
     armed |-> frag_timer'[c].armed, deadline |-> frag_timer'[c].deadline]

C15_Call(st, r) ==
    IF st.mem <= frag_high_thresh
    THEN r = st
    ELSE \E n \in 0 .. Len(st.age) :
             /\ C15_Shortest(st, n, st.mem - frag_low_thresh)
             /\ C15_Evicted(st, r, n)

\* C15: a call of frag_limit_mem with frag_mem above the high threshold
\* evicts the keys of a prefix of the age list, the shortest one whose
\* entries have a total mem_size of at least frag_mem - frag_low_thresh, or
\* the whole list; a call with frag_mem at or below the high threshold
\* changes nothing
C15_EvictsShortestPrefix ==
    [][\A c \in Cores :
           (last'.op = "limit" /\ last'.cpu = c)
               => C15_Call(StOf(c), C15_Post(c))]_vars

\* C15 witness: a call above the high threshold evicted the two oldest
\* entries and kept the youngest
C15_Witness ==
    /\ last.op = "limit"
    /\ last.lim[1].pre > frag_high_thresh
    /\ last.lim[1].post = FragPayloadLen + ipv4_hdr_len_min
    /\ Len(frags_age[last.cpu]) = 1
    /\ DOMAIN frags[last.cpu] = {frags_age[last.cpu][1]}

(***************************************************************************)
(* Properties of the steering of atomic datagrams (SpecSteer).             *)
(***************************************************************************)
\* frame p is an atomic datagram for a registered protocol, and core c is
\* not the core the handler's forward names
C16_NotOwner(c, p) ==
    /\ ~hdr_mf(p.h)
    /\ hdr_offset(p.h) = 0
    /\ p.h.ip_proto \in L4Registered
    /\ l4_forward(p.data, 0, p.h.src_ip, p.h.dst_ip) # c

\* the step submits p to core owner and nothing else happens on core c
C16_Submitted(c, p, owner) ==
    /\ last'.op = "steer"
    /\ last'.cpu = c
    /\ last'.l4 = <<>>
    /\ last'.to = <<owner>>
    /\ fwdq' = [fwdq EXCEPT ![owner] = Append(@, p)]
    /\ UNCHANGED <<frags, frags_age, frag_mem, frag_timer>>

C16_Step(c, p) ==
    (C16_NotOwner(c, p) /\ NicRx(c, p))
        => /\ C16_Submitted(c, p, l4_forward(p.data, 0, p.h.src_ip, p.h.dst_ip))
           /\ C13_DeliveredThere(l4_forward(p.data, 0, p.h.src_ip, p.h.dst_ip), p)

\* C16: an atomic datagram received from the NIC on a core that is not its
\* owning core is submitted once, to the owning core, with no L4 call on
\* the receiving core; the owning core hands it to L4 once and does not
\* forward it again
C16_AtomicSteeredOnce ==
    [][\A c \in Cores : \A p \in SteerFrames : C16_Step(c, p)]_vars

\* C16 witness: a core has submitted an atomic datagram it does not own,
\* and the datagram waits in the queue of its owning core
C16_Witness ==
    /\ last.op = "steer"
    /\ last.l4 = <<>>
    /\ \E p \in SteerFrames :
           /\ C16_NotOwner(last.cpu, p)
           /\ last.to = <<l4_forward(p.data, 0, p.h.src_ip, p.h.dst_ip)>>
           /\ fwdq[last.to[1]] = <<p>>

(***************************************************************************)
(* icmp::received (SpecIcmp).  The packet is a sequence of fragments of    *)
(* bytes; an ICMP message starts with type, code and a 16-bit checksum.    *)
(* ic.frags is the packet the handler was called with, ic.read the bytes   *)
(* its checksummer summed.                                                 *)
(***************************************************************************)
MaxIcmpLen == 12
MaxIcmpFrags == 3

\* sizeof(icmp_hdr): type, code, csum and 32 bits of rest
icmp_hdr_len == 8
\* icmp_hdr::msg_type
echo_reply == 0
dest_unreachable == 3
echo_request == 8

RECURSIVE Sum16(_)
\* the sum of the 16-bit big-endian words of bytes, an odd last byte padded
Sum16(bytes) ==
    IF bytes = <<>> THEN 0
    ELSE IF Len(bytes) = 1 THEN bytes[1] * 256
    ELSE bytes[1] * 256 + bytes[2] + Sum16(Tail(Tail(bytes)))

Fold16(x) == (x % U16) + (x \div U16)

\* checksummer::sum followed by get: the one's complement of the folded sum
ip_checksum(bytes) == (U16 - 1) - Fold16(Fold16(Sum16(bytes)))

\* packet::get_header<icmp_hdr>(0) on a packet of at least icmp_hdr_len
\* bytes: the fragments, linearized when the first is shorter than the header
get_header_frags(fs) ==
    IF Len(fs[1]) >= icmp_hdr_len THEN fs
    ELSE linearize_frags(fs, 0, linearize_scan(fs, 0, icmp_hdr_len, 0, 0),
                         "forward")

\* the header rewritten as an echo reply with checksum field csum
reply_hdr(frag, csum) ==
    [i \in 1 .. Len(frag) |->
        IF i = 1 THEN echo_reply
        ELSE IF i = 2 THEN 0
        ELSE IF i = 3 THEN csum \div 256
        ELSE IF i = 4 THEN csum % 256
        ELSE frag[i]]

\* the bytes a read past the end of a fragment can return
IcJunk == {0, 255}

\* csum.sum(hdr, p.len()) reads p.len() bytes from the start of the first
\* fragment: the fragment, then whatever lies behind it in memory
CsumReads(fs) ==
    {reply_hdr(fs[1], 0) \o Flatten(Tail(fs))}
    \cup {reply_hdr(fs[1], 0) \o [i \in 1 .. Len(Flatten(Tail(fs))) |-> j] :
              j \in IcJunk}

\* ipv4::send(to, proto_num, p) of the host, for a packet below the MTU
icmp_reply_frame(to, fs, read) ==
    send_pkt(HostAddr, to, IPPROTO_ICMP, FALSE,
             reply_hdr(fs[1], ip_checksum(read)) \o Flatten(Tail(fs)),
             0, 0, hw_features)

\* icmp::received(p, from, to) where p holds the fragments fs
IcmpReceived(fs, from, to) ==
    /\ ~ic.called
    /\ IF Len(Flatten(fs)) < icmp_hdr_len \/ Flatten(fs)[1] # echo_request
       THEN /\ ic' = [called |-> TRUE, frags |-> fs, from |-> from, to |-> to,
                      read |-> <<>>]
            /\ UNCHANGED <<tx, wire>>
       ELSE /\ ~needs_frag(Len(Flatten(fs)), IPPROTO_ICMP, hw_features)
            /\ \E read \in CsumReads(get_header_frags(fs)) :
                   /\ ic' = [called |-> TRUE, frags |-> fs, from |-> from,
                             to |-> to, read |-> read]
                   /\ wire' = Append(wire,
                                     icmp_reply_frame(from, get_header_frags(fs),
                                                      read))
                   /\ tx' = [state |-> "done", to |-> from,
                             proto |-> IPPROTO_ICMP,
                             p |-> wire'[Len(wire')].pkt.data,
                             remaining |-> 0, offset |-> 0, needs_frag |-> FALSE]
    /\ UNCHANGED <<frags, frags_age, frag_mem, frag_timer, now, fwdq,
                   hw_features, crashed, last, wire_rx, l4_log, probe, pk, mb,
                   arp, packet_filter>>

\* an ICMP message of len bytes
IcmpMsg(type, code, len) ==
    [i \in 1 .. len |-> IF i = 1 THEN type ELSE IF i = 2 THEN code ELSE 16 + i]

RECURSIVE SplitAt(_, _)
\* the bytes cut into fragments of the given sizes
SplitAt(bytes, sizes) ==
    IF sizes = <<>> THEN <<>>
    ELSE <<SubSeq(bytes, 1, Head(sizes))>>
             \o SplitAt(SubSeq(bytes, Head(sizes) + 1, Len(bytes)), Tail(sizes))

\* the ways to hold MaxIcmpLen bytes or fewer in up to MaxIcmpFrags fragments
IcmpSizes ==
    {sizes \in UNION {[1 .. n -> 1 .. MaxIcmpLen] : n \in 1 .. MaxIcmpFrags} :
         SeqSum(sizes) <= MaxIcmpLen}

IcmpPackets ==
    {SplitAt(IcmpMsg(type, code, SeqSum(sizes)), sizes) :
         type \in {echo_reply, dest_unreachable, echo_request},
         code \in {0, 1}, sizes \in IcmpSizes}

InitIcmp ==
    /\ InitRx
    /\ InitRestIdle
    /\ InitTxIdle
    /\ InitProbeIdle
    /\ InitPkIdle
    /\ \E o \in BOOLEAN : hw_features = HwDefault(o)

NextIcmp ==
    \E fs \in IcmpPackets : \E from \in {PeerAddr, FarAddr} :
        IcmpReceived(fs, from, HostAddr)

SpecIcmp == InitIcmp /\ [][NextIcmp]_vars

\* the message the handler was called with
C17_Request == Flatten(ic.frags)

\* the reply the claim describes: type 0, code 0, the checksum of the whole
\* message computed with a zero checksum field, the rest unchanged
C17_Reply ==
    reply_hdr(C17_Request, ip_checksum(reply_hdr(C17_Request, 0)))

\* C17: icmp::received answers an echo request with one send of a reply of
\* type 0 and code 0, with the checksum of the whole ICMP message, from the
\* request's destination to its source; for another type or a packet
\* shorter than an ICMP header it sends nothing
C17_EchoReply ==
    ic.called =>
        IF Len(C17_Request) >= icmp_hdr_len /\ C17_Request[1] = echo_request
        THEN /\ Len(wire) = 1
             /\ wire[1].pkt.data = C17_Reply
             /\ wire[1].pkt.h.ip_proto = IPPROTO_ICMP
             /\ wire[1].pkt.h.src_ip = ic.to
             /\ wire[1].pkt.h.dst_ip = ic.from
        ELSE wire = <<>>

\* the same for a packet whose bytes lie in one fragment
C17_EchoReplyOneFragment ==
    (ic.called /\ Len(ic.frags) = 1) => C17_EchoReply

(***************************************************************************)
(* Properties of the age list (Spec).                                      *)
(***************************************************************************)
\* C18: on every core, between receive steps, the keys of the reassembly
\* table are the keys of the age list, and no key is in the age list twice
C18_TableMatchesAgeList ==
    \A c \in Cores :
        /\ DOMAIN frags[c] = Range(frags_age[c])
        /\ \A i, j \in DOMAIN frags_age[c] :
               frags_age[c][i] = frags_age[c][j] => i = j

\* C19: on every core the age list is ordered by non-decreasing rx_time
\* from front to back
C19_AgeListOrdered ==
    \A c \in Cores : \A i, j \in DOMAIN frags_age[c] :
        i < j => FragAt(StOf(c), frags_age[c][i]).rx_time
                     <= FragAt(StOf(c), frags_age[c][j]).rx_time

(***************************************************************************)
(* Properties of datagrams for a protocol without handler (SpecSteer).     *)
(***************************************************************************)
\* C20: a datagram for the host whose protocol has no registered handler is
\* dropped without a call of an L4 handler and without a failure of the
\* engine, when it arrives atomic and when its last missing fragment
\* completes a reassembly
C20_UnregisteredDropped ==
    /\ ~crashed
    /\ last.op # "null_call"
    /\ \A i \in DOMAIN last.l4 : last.l4[i].proto \in L4Registered

\* the atomic case alone: no L4 call for a protocol without handler
C20_AtomicDropped ==
    \A i \in DOMAIN last.l4 : last.l4[i].proto \in L4Registered

(***************************************************************************)
(* Two datagrams of one flow (SpecOrder): every frame arrives from the NIC *)
(* on one core, the frames of the first datagram before those of the       *)
(* second.  wire holds the frames in their order of arrival, with the core *)
(* that receives them and the datagram they belong to.                     *)
(***************************************************************************)
\* the body of datagram n of the flow with source port port
OrderBody(port, n) ==
    [i \in 1 .. 2 * FragPayloadLen |->
        IF i = 1 THEN port ELSE IF i = 5 THEN 100 + n ELSE i]

\* the frames of datagram n, sent in two fragments or whole
OrderFrames(n, id, port, fragmented) ==
    IF fragmented
    THEN <<RxFrame(PeerAddr, HostAddr, id, IPPROTO_TCP, TRUE, 0,
                   SubSeq(OrderBody(port, n), 1, FragPayloadLen), FALSE),
           RxFrame(PeerAddr, HostAddr, id, IPPROTO_TCP, FALSE,
                   FragPayloadLen \div 8,
                   SubSeq(OrderBody(port, n), FragPayloadLen + 1,
                          2 * FragPayloadLen), FALSE)>>
    ELSE <<RxFrame(PeerAddr, HostAddr, id, IPPROTO_TCP, FALSE, 0,
                   SubSeq(OrderBody(port, n), 1, FragPayloadLen), FALSE)>>

OrderWire(frames, r, n) ==
    [i \in DOMAIN frames |-> [pkt |-> frames[i], rx_core |-> r, dgram |-> n]]

InitOrder ==
    /\ InitRx
    /\ InitRestIdle
    /\ InitProbeIdle
    /\ InitPkIdle
    /\ tx = TxIdle
    /\ wire_rx = {}
    /\ l4_log = <<>>
    /\ hw_features = HwDefault(FALSE)
    /\ \E r \in Cores : \E port \in {1, 2} : \E f \in BOOLEAN \X BOOLEAN :
           \E id \in {<<1, 2>>, <<1, 3>>, <<2, 1>>} :
               wire = OrderWire(OrderFrames(1, id[1], port, f[1]), r, 1)
                          \o OrderWire(OrderFrames(2, id[2], port, f[2]), r, 2)

\* frame i of the wire arrives from the NIC on the core the wire names
OrderRxAt(i) ==
    /\ ~crashed
    /\ Dispatch(wire[i].rx_core, wire[i].pkt, fwdq)
    /\ wire_rx' = wire_rx \cup {i}
    /\ l4_log' = l4_log \o last'.l4
    /\ UNCHANGED <<now, hw_features, tx, wire, probe, pk, mb, ic, arp,
                   packet_filter>>

\* the next frame arrives
OrderRx ==
    /\ DOMAIN wire \ wire_rx # {}
    /\ OrderRxAt(Min(DOMAIN wire \ wire_rx))

NextOrder ==
    \/ OrderRx
    \/ \E c \in Cores : WireProxyRx(c)

SpecOrder == InitOrder /\ [][NextOrder]_vars

\* L4 call i of the log hands over datagram n
C21_Is(i, n) == l4_log[i].payload[5] = 100 + n

\* C21: of two datagrams of one flow whose frames are received in order on
\* one core, the L4 handler receives the first before the second
C21_FlowOrdered ==
    \A i \in DOMAIN l4_log :
        C21_Is(i, 2) => \E j \in 1 .. (i - 1) : C21_Is(j, 1)

\* the same when neither datagram is fragmented
C21_AtomicFlowOrdered ==
    (\A i \in DOMAIN wire : wire[i].pkt.h.frag = 0) => C21_FlowOrdered

(***************************************************************************)
(* The merge of the fragments of one fragment key (SpecMerge): any         *)
(* fragments, in any order, with duplicates, overlaps and fragments that   *)
(* lie behind the fragment with MF = 0.  wire holds the fragments merged   *)
(* so far, frags[0] the entry.                                             *)
(***************************************************************************)
MaxMergeFrags == 3
MaxMergeOffset == 3

MergeLens == {0, FragPayloadLen \div 2, FragPayloadLen}

\* the fragments of the key: every offset field, length and MF, but for the
\* atomic datagram
MergeFrames ==
    {RxFrame(PeerAddr, HostAddr, 1, IPPROTO_TCP, mf, off,
             [i \in 1 .. len |-> off], FALSE) :
         mf \in BOOLEAN, off \in 0 .. MaxMergeOffset, len \in MergeLens}
    \ {RxFrame(PeerAddr, HostAddr, 1, IPPROTO_TCP, FALSE, 0,
               [i \in 1 .. len |-> 0], FALSE) : len \in MergeLens}

MergeKey == <<PeerAddr, HostAddr, 1, IPPROTO_TCP>>

MergeEntry == FragAt(StOf(0), MergeKey)

\* lines 131-143 for fragment p of the key: the entry is looked up or
\* created, touched and merged
MergeRx(p) ==
    /\ Len(wire) < MaxMergeFrags
    /\ ~(MergeKey \in DOMAIN frags[0] /\ is_complete(frags[0][MergeKey]))
    /\ frags' = [frags EXCEPT ![0] =
                    (MergeKey :> frag_merge(frag_touch(MergeEntry, p.h, now),
                                            p.h, hdr_offset(p.h), PktBytes(p)))]
    /\ wire' = Append(wire, [pkt |-> p])
    /\ last' = [op |-> "merge", cpu |-> 0, l4 |-> <<>>, lim |-> <<>>, to |-> <<>>]
    /\ UNCHANGED <<frags_age, frag_mem, frag_timer, now, fwdq, hw_features,
                   crashed, tx, wire_rx, l4_log, probe, pk, mb, ic, arp,
                   packet_filter>>

NextMerge == \E p \in MergeFrames : MergeRx(p)

SpecMerge == Init /\ [][NextMerge]_vars

\* the payload bytes received so far, and the ends of the fragments
C22_Covered ==
    UNION {hdr_offset(wire[i].pkt.h)
               .. (hdr_offset(wire[i].pkt.h) + Len(wire[i].pkt.data) - 1) :
           i \in DOMAIN wire}

C22_End(i) == hdr_offset(wire[i].pkt.h) + Len(wire[i].pkt.data)

C22_LastArrived == \E i \in DOMAIN wire : ~hdr_mf(wire[i].pkt.h)

\* C22 as stated: after a merge the entry is complete if and only if the
\* fragment with MF = 0 has arrived and the ranges received cover every
\* byte from offset 0 to the end of that fragment
C22_AsStated ==
    wire # <<>> =>
        (is_complete(MergeEntry)
            <=> \E i \in DOMAIN wire :
                    /\ ~hdr_mf(wire[i].pkt.h)
                    /\ \A b \in 0 .. (C22_End(i) - 1) : b \in C22_Covered)

\* C22: after a merge the entry is complete if and only if a fragment with
\* MF = 0 has arrived and the ranges received so far make up one range
\* without gap that starts at offset 0 and holds every fragment received
C22_CompleteIffOneRange ==
    wire # <<>> =>
        (is_complete(MergeEntry)
            <=> /\ C22_LastArrived
                /\ C22_Covered
                       = 0 .. (Max({C22_End(i) : i \in DOMAIN wire}) - 1))

\* C22 witness: the entry became complete with the third fragment, after
\* the fragment with MF = 0 and a fragment that overlaps another
C22_Witness ==
    /\ Len(wire) = 3
    /\ is_complete(MergeEntry)
    /\ ~hdr_mf(wire[1].pkt.h)
    /\ hdr_offset(wire[2].pkt.h) = 0
    /\ Len(wire[2].pkt.data) = FragPayloadLen
    /\ hdr_offset(wire[3].pkt.h) = FragPayloadLen \div 2
    /\ Len(MergeEntry.data[0]) > FragPayloadLen

\* C23: whenever the reassembly table of a core is non-empty at the end of a
\* receive step or of a timer callback, the timer of that core is armed
C23_TimerArmedWhileEntries ==
    ~crashed => \A c \in Cores : DOMAIN frags[c] # {} => frag_timer[c].armed

\* C23 witness: the timer callback has run, has dropped an entry and has left
\* one, with the timer armed again
C23_Witness ==
    /\ last.op = "timeout"
    /\ DOMAIN frags[last.cpu] # {}
    /\ frag_mem[last.cpu] > 0
    /\ Len(frags_age[last.cpu]) = 1
    /\ frag_timer[last.cpu].armed
    /\ frag_timer[last.cpu].deadline = now + frag_timeout_s

(***************************************************************************)
(* The ageing of entries (SpecAge): the fragments of two datagrams whose   *)
(* keys hash to one core arrive on that core, the clock advances in steps  *)
(* of AgeStep seconds and every timer fires exactly at its deadline.       *)
(***************************************************************************)
AgeStep == 10
MaxAgeNow == 100

AgeFrames ==
    FramesOf(1, IPPROTO_TCP, 1)
    \cup {RxFrame(PeerAddr, HostAddr, 1 + NCores, IPPROTO_TCP, TRUE, 0,
                  SubSeq(Body(1), 1, FragPayloadLen), FALSE)}

AgeRx(c) ==
    \E p \in AgeFrames :
        /\ handle_on_cpu(c, p) = c
        /\ NicRx(c, p)

\* AgeStep seconds pass, but not past the deadline of an armed timer
AgeTick ==
    /\ now + AgeStep <= MaxAgeNow
    /\ C14_TimerIdle
    /\ now' = now + AgeStep
    /\ last' = [op |-> "tick", cpu |-> 0, l4 |-> <<>>, lim |-> <<>>, to |-> <<>>]
    /\ UNCHANGED <<frags, frags_age, frag_mem, frag_timer, fwdq, hw_features,
                   crashed, tx, wire, wire_rx, l4_log, probe, pk, mb, ic, arp,
                   packet_filter>>

NextAge ==
    \/ \E c \in Cores : AgeRx(c)
    \/ \E c \in Cores : FragTimerFire(c)
    \/ AgeTick

SpecAge == Init /\ [][NextAge]_vars

\* C24: with every timer callback run at its deadline, no entry is in the
\* table later than 60 s after the rx_time it holds, which is never earlier
\* than its creation
C24_RemovedWithin60s ==
    C14_TimerIdle =>
        \A c \in Cores : \A k \in DOMAIN frags[c] :
            now <= frags[c][k].rx_time + 2 * frag_timeout_s

\* C25: frag_limit_mem has brought _frag_mem to frag_high_thresh or below
\* just before every merge, so that in every state _frag_mem is at most
\* frag_high_thresh plus the memory of one fragment
C25_MemBounded ==
    /\ last.lim # <<>> => last.lim[1].post <= frag_high_thresh
    /\ \A c \in Cores :
           frag_mem[c] <= frag_high_thresh + ipv4_hdr_len_min + FragPayloadLen

\* C25 witness: a merge has taken _frag_mem above frag_high_thresh, after a
\* call of frag_limit_mem that had evicted
C25_Witness ==
    /\ last.op = "fragment"
    /\ last.lim # <<>>
    /\ last.lim[1].pre > frag_high_thresh
    /\ frag_mem[last.cpu] > frag_high_thresh

(***************************************************************************)
(* The head of handle_received_packet, lines 77-126, on frames given as    *)
(* bytes (SpecFront): the header is read from the bytes, the checksum is   *)
(* summed as the code sums it, ARP is taught and the packet filter is      *)
(* asked.  wire holds the frames received so far.                          *)
(***************************************************************************)
MaxFrontFrames == 3

\* hton of a 16-bit and of a 32-bit value
B16(x) == <<x \div 256, x % 256>>
B32(x) == <<x \div 16777216, (x \div 65536) % 256, (x \div 256) % 256, x % 256>>
\* ntoh of the 16-bit and of the 32-bit value at position i of b
W16(b, i) == b[i] * 256 + b[i + 1]
W32(b, i) == W16(b, i) * 65536 + W16(b, i + 2)

\* ip_hdr in network order: header h with ttl 64 and checksum field csum
ip_hdr_bytes(h, csum) ==
    <<4 * 16 + h.ihl, 0>> \o B16(h.len) \o B16(h.id) \o B16(h.frag)
        \o <<64, h.ip_proto>> \o B16(csum) \o B32(h.src_ip) \o B32(h.dst_ip)

\* ntoh(*iph) for the ip_hdr at the start of b
ntoh_ip_hdr(b) ==
    [src_ip |-> W32(b, 13), dst_ip |-> W32(b, 17), id |-> W16(b, 5),
     ip_proto |-> b[10], frag |-> W16(b, 7), ihl |-> b[1] % 16,
     len |-> W16(b, 3)]

\* lines 79-91: the frame as handle_received_packet sees it; the checksum is
\* summed over sizeof(*iph) bytes
FrontPkt(b) ==
    MkPkt(ntoh_ip_hdr(b), trim_front(b, ipv4_hdr_len_min),
          ip_checksum(SubSeq(b, 1, ipv4_hdr_len_min)) # 0)

\* lines 85-108: the packet passes the checksum and the length checks
ip_valid(p, rx_csum_offload) ==
    /\ ~(~rx_csum_offload /\ ~p.reassembled /\ p.csum_bad)
    /\ PktLen(p) >= p.h.len
    /\ hdr_offset(p.h) + p.h.len <= ip_packet_len_max

\* _arp.learn called only for a packet addressed to the host
arp_learn_for_host(cur, p, from, rx_csum_offload) ==
    IF /\ ip_valid(p, rx_csum_offload)
       /\ in_my_netmask(HostAddr, p.h.src_ip)
       /\ p.h.src_ip # HostAddr
       /\ p.h.dst_ip = HostAddr
    THEN <<[cpu |-> cur, l2 |-> from, l3 |-> p.h.src_ip]>>
    ELSE <<>>

\* lines 111-113: what _arp.learn is called with for packet p from link
\* address from
arp_learn(cur, p, from, rx_csum_offload) ==
    IF /\ ip_valid(p, rx_csum_offload)
       /\ in_my_netmask(HostAddr, p.h.src_ip)
       /\ p.h.src_ip # HostAddr
    THEN <<[cpu |-> cur, l2 |-> from, l3 |-> p.h.src_ip]>>
    ELSE <<>>

\* ip_receive that goes on after a filter that reports handled
ip_receive_unfiltered(st, cur, p, t, rx_csum_offload, filter, handled) ==
    handle_received_packet(st, cur, p, t, rx_csum_offload)

\* lines 79-184 for a packet with a whole ip_hdr; filter: a filter is
\* installed, handled: what it reports
ip_receive(st, cur, p, t, rx_csum_offload, filter, handled) ==
    IF ip_valid(p, rx_csum_offload) /\ filter /\ handled
    THEN RxResult(st, "filtered", <<>>, <<>>, <<>>)
    ELSE handle_received_packet(st, cur, p, t, rx_csum_offload)

\* lines 79-82: get_header returns null for a frame shorter than an ip_hdr
ip_receive_bytes(st, cur, b, t, rx_csum_offload, filter, handled) ==
    IF Len(b) < ipv4_hdr_len_min
    THEN RxResult(st, "drop", <<>>, <<>>, <<>>)
    ELSE ip_receive(st, cur, FrontPkt(b), t, rx_csum_offload, filter, handled)

\* the link address of the peer
PeerMac == <<2, 0, 0, 0, 0, 5>>

FrontOpts == <<1, 1, 1, 1>>

FrontData == SubSeq(Body(1), 1, FragPayloadLen)

\* the frame of header h, options opts and payload data whose checksum field
\* makes the first n bytes of the header sum to zero, plus d
FrontFrame(h, opts, data, n, d) ==
    ip_hdr_bytes(h, (ip_checksum(SubSeq(ip_hdr_bytes(h, 0) \o opts, 1, n)) + d)
                        % U16)
        \o opts \o data

FrontHdr(src, dst, mf, off, ihl, extra) ==
    MkHdr(src, dst, 1, IPPROTO_TCP, mf, off, ihl,
          ihl * 4 + FragPayloadLen + extra)

FrontFrames ==
    { \* unfragmented, correct checksum
      FrontFrame(FrontHdr(PeerAddr, HostAddr, FALSE, 0, 5, 0), <<>>, FrontData, 20, 0),
      \* options, checksum correct over ihl * 4 bytes
      FrontFrame(FrontHdr(PeerAddr, HostAddr, FALSE, 0, 6, 0), FrontOpts, FrontData, 24, 0),
      \* options, checksum correct over the first 20 bytes only
      FrontFrame(FrontHdr(PeerAddr, HostAddr, FALSE, 0, 6, 0), FrontOpts, FrontData, 20, 0),
      \* wrong checksum
      FrontFrame(FrontHdr(PeerAddr, HostAddr, FALSE, 0, 5, 0), <<>>, FrontData, 20, 1),
      \* cut inside the header
      SubSeq(FrontFrame(FrontHdr(PeerAddr, HostAddr, FALSE, 0, 5, 0), <<>>, FrontData, 20, 0), 1, 12),
      \* shorter than the total length of the header
      FrontFrame(FrontHdr(PeerAddr, HostAddr, FALSE, 0, 5, 8), <<>>, FrontData, 20, 0),
      \* longer than the total length of the header
      FrontFrame(FrontHdr(PeerAddr, HostAddr, FALSE, 0, 5, 0), <<>>, FrontData, 20, 0) \o <<0, 0>>,
      \* offset + length above 65535
      FrontFrame(FrontHdr(PeerAddr, HostAddr, FALSE, 2^mf_shift - 1, 5, 0), <<>>, FrontData, 20, 0),
      \* for another host
      FrontFrame(FrontHdr(PeerAddr, GwAddr, FALSE, 0, 5, 0), <<>>, FrontData, 20, 0),
      \* from outside the subnet, and with the host's own address as source
      FrontFrame(FrontHdr(FarAddr, HostAddr, FALSE, 0, 5, 0), <<>>, FrontData, 20, 0),
      FrontFrame(FrontHdr(HostAddr, HostAddr, FALSE, 0, 5, 0), <<>>, FrontData, 20, 0),
      \* the two fragments of a datagram
      FrontFrame(FrontHdr(PeerAddr, HostAddr, TRUE, 0, 5, 0), <<>>, FrontData, 20, 0),
      FrontFrame(FrontHdr(PeerAddr, HostAddr, FALSE, FragPayloadLen \div 8, 5, 0), <<>>, FrontData, 20, 0) }

InitFront ==
    /\ InitRx
    /\ InitTxIdle
    /\ InitProbeIdle
    /\ InitPkIdle
    /\ mb = MbIdle
    /\ ic = IcIdle
    /\ wire_rx = {}
    /\ l4_log = <<>>
    /\ arp = <<>>
    /\ packet_filter \in BOOLEAN
    /\ \E o \in BOOLEAN : hw_features = HwDefault(o)

\* handle_received_packet is called on core c with frame b; the frame is on
\* the core that handle_on_cpu names
FrontRx(c, b, handled) ==
    /\ ~crashed
    /\ Len(wire) < MaxFrontFrames
    /\ Len(b) >= ipv4_hdr_len_min => handle_on_cpu(c, FrontPkt(b)) = c
    /\ Handled(c, fwdq,
               ip_receive_bytes(StOf(c), c, b, now, hw_features.rx_csum_offload,
                                packet_filter, handled))
    /\ arp' = arp \o (IF Len(b) < ipv4_hdr_len_min THEN <<>>
                      ELSE arp_learn(c, FrontPkt(b), PeerMac,
                                     hw_features.rx_csum_offload))
    /\ wire' = Append(wire, [pkt |-> b, cpu |-> c, handled |-> handled])
    /\ l4_log' = l4_log \o last'.l4
    /\ UNCHANGED <<now, hw_features, tx, wire_rx, probe, pk, mb, ic,
                   packet_filter>>

\* core c receives the reassembled datagram another core forwarded to it
FrontProxyRx(c, handled) ==
    /\ ~crashed
    /\ fwdq[c] # <<>>
    /\ Handled(c, [fwdq EXCEPT ![c] = Tail(@)],
               ip_receive(StOf(c), c, Head(fwdq[c]), now,
                          hw_features.rx_csum_offload, packet_filter, handled))
    /\ arp' = arp \o arp_learn(c, Head(fwdq[c]), PeerMac,
                               hw_features.rx_csum_offload)
    /\ l4_log' = l4_log \o last'.l4
    /\ UNCHANGED <<now, hw_features, tx, wire, wire_rx, probe, pk, mb, ic,
                   packet_filter>>

\* what the installed filter may report
FilterSays == IF packet_filter THEN BOOLEAN ELSE {FALSE}

NextFront ==
    \/ \E c \in Cores : \E b \in FrontFrames : \E handled \in FilterSays :
           FrontRx(c, b, handled)
    \/ \E c \in Cores : \E handled \in FilterSays : FrontProxyRx(c, handled)

SpecFront == InitFront /\ [][NextFront]_vars

\* the frame that the step has just received, and the core that received it
FrontNew == wire'[Len(wire')]

FrontRxStep == Len(wire') = Len(wire) + 1

\* the reassembly state of every core, and the queues between the cores
FrontState == <<frags, frags_age, frag_mem, frag_timer, fwdq>>

\* frame b has a whole header; its checksum, summed over the first n bytes
FrontWhole(b) == Len(b) >= ipv4_hdr_len_min
FrontSum(b, n) == ip_checksum(SubSeq(b, 1, n))
\* the fragment offset of frame b, in bytes
FrontOffset(b) == (W16(b, 7) * 2^offset_shift) % U16

\* the reasons of C26 to drop frame b, read from its bytes
C26_Truncated(b) == ~FrontWhole(b)
C26_BadChecksum(b) ==
    /\ FrontWhole(b)
    /\ ~hw_features.rx_csum_offload
    /\ FrontSum(b, ipv4_hdr_len_min) # 0
C26_Short(b) == FrontWhole(b) /\ Len(b) < W16(b, 3)
C26_TooLong(b) ==
    /\ FrontWhole(b)
    /\ FrontOffset(b) + W16(b, 3) > ip_packet_len_max
C26_NotForHost(b) == FrontWhole(b) /\ W32(b, 17) # HostAddr

C26_Dropped(b) ==
    \/ C26_Truncated(b)
    \/ C26_BadChecksum(b)
    \/ C26_Short(b)
    \/ C26_TooLong(b)
    \/ C26_NotForHost(b)

\* C26: a frame that is dropped for a truncated header, a wrong checksum, a
\* length below the total length, offset + length above 65535 or a
\* destination that is not the host causes no L4 delivery and no forward,
\* and leaves the table, the age list, frag_mem and the timer as they were
C26_DropHasNoEffect ==
    [][(FrontRxStep /\ C26_Dropped(FrontNew.pkt))
           => /\ last'.l4 = <<>>
              /\ l4_log' = l4_log
              /\ FrontState' = FrontState]_vars

\* C26 witness: with an entry in the table and the timer armed, a frame with
\* a wrong checksum and then a frame for another host were dropped
C26_Witness ==
    /\ Len(wire) = 3
    /\ ~hw_features.rx_csum_offload
    /\ ~packet_filter
    /\ \E c \in Cores : DOMAIN frags[c] # {} /\ frag_timer[c].armed
    /\ FrontWhole(wire[2].pkt) /\ FrontSum(wire[2].pkt, ipv4_hdr_len_min) # 0
    /\ FrontWhole(wire[3].pkt) /\ W32(wire[3].pkt, 17) = GwAddr
    /\ last.op = "drop"
    /\ l4_log = <<>>

\* frame b is an unfragmented datagram for the host, as long as its header
\* says, of a protocol with a handler
C28_Deliverable(b) ==
    /\ FrontWhole(b)
    /\ Len(b) >= W16(b, 3)
    /\ W16(b, 7) = 0
    /\ W32(b, 17) = HostAddr
    /\ b[10] \in L4Registered

\* C28: with RX checksum offload off, a frame that is not marked reassembled
\* is accepted if and only if the checksum over the first ihl * 4 bytes of
\* its header is correct, also for a header with options
C28_ChecksumOverIhl ==
    [][(/\ FrontRxStep
        /\ ~hw_features.rx_csum_offload
        /\ ~(packet_filter /\ FrontNew.handled)
        /\ C28_Deliverable(FrontNew.pkt))
           => (last'.op = "deliver"
                   <=> FrontSum(FrontNew.pkt, (FrontNew.pkt[1] % 16) * 4) = 0)]_vars

\* the checksum is not verified when RX checksum offload is on
C28_NoCheckWhenOffloaded ==
    [][(/\ FrontRxStep
        /\ hw_features.rx_csum_offload
        /\ ~(packet_filter /\ FrontNew.handled)
        /\ C28_Deliverable(FrontNew.pkt))
           => last'.op = "deliver"]_vars

\* frame b passes the validation of lines 79-108
C29_Valid(b) ==
    /\ FrontWhole(b)
    /\ hw_features.rx_csum_offload \/ FrontSum(b, ipv4_hdr_len_min) = 0
    /\ Len(b) >= W16(b, 3)
    /\ FrontOffset(b) + W16(b, 3) <= ip_packet_len_max

C29_Taught(b) ==
    /\ C29_Valid(b)
    /\ W32(b, 13) \div SubnetSize = HostAddr \div SubnetSize
    /\ W32(b, 13) # HostAddr

\* C29: ARP is taught the pair of link address and source address exactly
\* for the frames that pass the validation and whose source is in the
\* subnet and is not the host: also when the filter then handles the packet
\* or the packet is dropped as not for the host, never for a frame that
\* fails the validation
C29_ArpTaughtExactly ==
    [][FrontRxStep
           => arp' = IF C29_Taught(FrontNew.pkt)
                     THEN Append(arp, [cpu |-> FrontNew.cpu, l2 |-> PeerMac,
                                       l3 |-> W32(FrontNew.pkt, 13)])
                     ELSE arp]_vars

\* C29 witness: ARP was taught by a frame for another host and by a frame the
\* filter handled, and not by a frame with a wrong checksum
C29_Witness ==
    /\ Len(wire) = 3
    /\ packet_filter
    /\ ~hw_features.rx_csum_offload
    /\ FrontWhole(wire[1].pkt) /\ W32(wire[1].pkt, 17) = GwAddr
    /\ FrontWhole(wire[2].pkt) /\ FrontSum(wire[2].pkt, ipv4_hdr_len_min) # 0
    /\ wire[3].handled
    /\ last.op = "filtered"
    /\ Len(arp) = 2

\* the result of the receive of the new frame on an engine without filter
C30_NoFilter ==
    ip_receive_bytes(StOf(FrontNew.cpu), FrontNew.cpu, FrontNew.pkt, now,
                     hw_features.rx_csum_offload, FALSE, FALSE)

\* C30: when the installed filter reports handled for a packet, the engine
\* does nothing more: no change of the reassembly state, no L4 delivery, no
\* forward; when it reports not handled, the step is the step of an engine
\* without filter
C30_FilterHandledOrTransparent ==
    [][(FrontRxStep /\ packet_filter)
           => IF FrontNew.handled /\ C29_Valid(FrontNew.pkt)
              THEN /\ last'.op = "filtered"
                   /\ last'.l4 = <<>>
                   /\ l4_log' = l4_log
                   /\ FrontState' = FrontState
              ELSE /\ last'.op = C30_NoFilter.op
                   /\ last'.l4 = C30_NoFilter.l4
                   /\ frags'[FrontNew.cpu] = C30_NoFilter.st.frags
                   /\ frags_age'[FrontNew.cpu] = C30_NoFilter.st.age
                   /\ frag_mem'[FrontNew.cpu] = C30_NoFilter.st.mem
                   /\ frag_timer'[FrontNew.cpu].armed = C30_NoFilter.st.armed
                   /\ (C30_NoFilter.fwd = <<>>) = (fwdq' = fwdq)]_vars

\* C30 witness: the filter let the first fragment pass and handled the last
\* fragment, which would have completed the datagram
C30_Witness ==
    /\ Len(wire) = 2
    /\ packet_filter
    /\ ~wire[1].handled
    /\ wire[2].handled
    /\ FrontWhole(wire[2].pkt) /\ W16(wire[2].pkt, 7) = FragPayloadLen \div 8
    /\ last.op = "filtered"
    /\ \E c \in Cores : DOMAIN frags[c] # {}
    /\ l4_log = <<>>

(***************************************************************************)
(* The lengths in the reassembly of a datagram of the largest size         *)
(* (SpecLen).  A packet is its length, the map of an entry gives the       *)
(* length of the packet at each offset, the header slot the length of the  *)
(* captured header: lines 93-108, 131-143, 360-385 and 402 on lengths, for *)
(* the fragments of one key with headers of 5 to 15 words.  The entry      *)
(* stays in frags[0] when it is complete; wire holds the headers of the    *)
(* fragments merged.  frag_limit_mem is left out: 4 MiB hold the datagram. *)
(***************************************************************************)
MaxLenFrames == 2

LenIhls == 5 .. 15

\* the payload lengths of the first fragment
LenFirsts == {32760, 32768}

LenDefaultFrag ==
    [header |-> 0, hdr |-> NoHdr, data |-> <<>>,
     last_frag_received |-> FALSE, rx_time |-> 0, mem_size |-> 0]

\* packet_merger::merge(offset, p) for a packet of n bytes
len_packet_merge(map, touching, beg, n) ==
    [k \in (DOMAIN map \ touching) \cup {Min({beg} \cup touching)} |->
        IF k = Min({beg} \cup touching)
        THEN Max({beg + n} \cup {k2 + map[k2] : k2 \in touching})
                 - Min({beg} \cup touching)
        ELSE map[k]]

\* lines 370-374: mem_size recomputed, below 2^32
len_frag_sized(frag) ==
    [frag EXCEPT
        !.mem_size = frag.header
                         + SumOver([k \in DOMAIN frag.data |-> frag.data[k]],
                                   DOMAIN frag.data)]

\* lines 360-369 for a packet of plen bytes
len_frag_stored(frag, h, offset, plen) ==
    [frag EXCEPT
        !.header = IF offset = 0 THEN MinOf(h.ihl * 4, plen) ELSE @,
        !.hdr = IF offset = 0 THEN h ELSE @,
        !.data = len_packet_merge(
                     @, {k \in DOMAIN @ : k <= offset + plen - h.ihl * 4
                                          /\ offset <= k + @[k]},
                     offset, plen - h.ihl * 4)]

\* ipv4::frag::merge(h, offset, p) for a packet of plen bytes
len_frag_merge(frag, h, offset, plen) ==
    len_frag_sized(len_frag_stored(frag, h, offset, plen))

\* line 402: the length that get_assembled_packet writes into the header
assembled_len(frag) == (frag.header + frag.data[0]) % U16

\* a fragment with ihl words of header and len bytes of payload at offset off
LenFrame(mf, off, ihl, len) ==
    MkHdr(PeerAddr, HostAddr, 1, IPPROTO_TCP, mf, off \div 8, ihl, ihl * 4 + len)

\* first fragments, and last fragments that end at the largest offset + length
\* the check of line 106 lets pass, or 8 bytes before
LenFrames ==
    {LenFrame(TRUE, 0, ihl, len) : ihl \in LenIhls, len \in LenFirsts}
    \cup {LenFrame(FALSE, off, ihl, ip_packet_len_max - ihl * 4 - off - d) :
              off \in LenFirsts, ihl \in LenIhls, d \in {0, 8}}

LenEntry ==
    IF MergeKey \in DOMAIN frags[0] THEN frags[0][MergeKey] ELSE LenDefaultFrag

\* a frame of pkt_len bytes with header h is received: the checks of lines
\* 98-108, then the merge
LenRx(h, pkt_len) ==
    /\ Len(wire) < MaxLenFrames
    /\ ~is_complete(LenEntry)
    /\ pkt_len >= h.len
    /\ hdr_offset(h) + h.len <= ip_packet_len_max
    /\ frags' = [frags EXCEPT ![0] =
                    (MergeKey :> len_frag_merge(frag_touch(LenEntry, h, now),
                                                h, hdr_offset(h), h.len))]
    /\ wire' = Append(wire, [h |-> h])
    /\ last' = [op |-> "merge", cpu |-> 0, l4 |-> <<>>, lim |-> <<>>, to |-> <<>>]
    /\ UNCHANGED <<frags_age, frag_mem, frag_timer, now, fwdq, hw_features,
                   crashed, tx, wire_rx, l4_log, probe, pk, mb, ic, arp,
                   packet_filter>>

NextLen == \E h \in LenFrames : \E extra \in {0, 4} : LenRx(h, h.len + extra)

SpecLen == Init /\ [][NextLen]_vars

\* the length of the datagram made of the header and the payload of entry f
C27_TotalLen(f) == f.header + f.data[0]

\* C27: the datagram of a completed reassembly, header captured from the
\* first fragment plus payload, is at most 65535 bytes long, so that the
\* 16-bit length written into the assembled packet is its length; for
\* headers of 5 to 15 words
C27_AssembledLenFits ==
    is_complete(LenEntry)
        => /\ C27_TotalLen(LenEntry) <= ip_packet_len_max
           /\ assembled_len(LenEntry) = C27_TotalLen(LenEntry)

\* the length fits when no fragment has a shorter header than the first
C27_FitsWithEqualHeaders ==
    (/\ is_complete(LenEntry)
     /\ \A i \in DOMAIN wire : wire[i].h.ihl >= LenEntry.hdr.ihl)
        => /\ C27_TotalLen(LenEntry) <= ip_packet_len_max
           /\ assembled_len(LenEntry) = C27_TotalLen(LenEntry)

\* C31: every frame send emits goes to the link address resolved for to when
\* to is in the subnet of the sending host, and for the default gateway
\* otherwise; its IP header has dst = to and src = the host address with
\* either next hop
C31_NextHopAndAddresses ==
    \A i \in DOMAIN wire :
        /\ wire[i].hop = IF tx.to \div SubnetSize = TxHost \div SubnetSize
                         THEN tx.to ELSE GwAddr
        /\ wire[i].pkt.h.dst_ip = tx.to
        /\ wire[i].pkt.h.src_ip = TxHost

\* C31 witness: a fragmented send to a host outside the subnet has emitted
\* its frames through the gateway
C31_Witness ==
    /\ tx.state = "done"
    /\ tx.needs_frag
    /\ tx.to = FarAddr
    /\ Len(wire) >= 2
    /\ \A i \in DOMAIN wire :
           wire[i].hop = GwAddr /\ wire[i].pkt.h.dst_ip = FarAddr

(***************************************************************************)
(* Two sends in a row to the host, and the host's receive of their frames  *)
(* in any order (SpecTwo).  Every byte of the body of datagram n is n.     *)
(***************************************************************************)
TwoBodyLen == 24

TwoBody(n) == [i \in 1 .. TwoBodyLen |-> n]

\* the future of a send that has emitted its frames resolves
SendReturn ==
    /\ tx.state = "done"
    /\ tx' = TxIdle
    /\ UNCHANGED <<frags, frags_age, frag_mem, frag_timer, now, fwdq,
                   hw_features, crashed, last, wire, wire_rx, l4_log, probe,
                   pk, mb, ic, arp, packet_filter>>

\* datagram n is sent, once
SendTwo(n) ==
    /\ \A i \in DOMAIN wire : wire[i].pkt.data[1] # n
    /\ Send(HostAddr, IPPROTO_TCP, TwoBody(n))

NextTwo ==
    \/ \E n \in {1, 2} : SendTwo(n)
    \/ SendFrag
    \/ SendReturn
    \/ \E c \in Cores : \E i \in DOMAIN wire : WireRx(c, i)

SpecTwo == InitRt /\ [][NextTwo]_vars

\* the frames at i and j of the wire are fragments of two datagrams
C32_TwoDatagrams(i, j) ==
    /\ wire[i].pkt.h.frag # 0
    /\ wire[j].pkt.h.frag # 0
    /\ wire[i].pkt.data[1] # wire[j].pkt.data[1]

\* C32: fragments of two datagrams sent to one destination with one protocol
\* within the fragment timeout carry different identifications, and no
\* datagram handed to L4 holds bytes of two datagrams
C32_DistinctIds ==
    /\ \A i, j \in DOMAIN wire :
           C32_TwoDatagrams(i, j) => wire[i].pkt.h.id # wire[j].pkt.h.id
    /\ \A k \in DOMAIN l4_log :
           \A x, y \in DOMAIN l4_log[k].payload :
               l4_log[k].payload[x] = l4_log[k].payload[y]

\* the byte position in the body of the payload of the frame at i of the wire
C33_Pos(i) == SeqSum([j \in 1 .. (i - 1) |-> Len(wire[j].pkt.data)])

\* the frames emitted so far are consecutive slices of the body
C33_Slices ==
    \A i \in DOMAIN wire :
        wire[i].pkt.data
            = SubSeq(tx.p, C33_Pos(i) + 1, C33_Pos(i) + Len(wire[i].pkt.data))

\* C33: the fragments send emits are consecutive slices that cover the body
\* exactly once, and the fragment offset field of each frame times 8 is the
\* byte position of its payload in the body, for every MTU above 20
C33_OffsetsMatchSlices ==
    tx.needs_frag =>
        /\ C33_Slices
        /\ tx.state = "done" => C33_Pos(Len(wire) + 1) = Len(tx.p)
        /\ \A i \in DOMAIN wire : hdr_offset(wire[i].pkt.h) = C33_Pos(i)

(***************************************************************************)
(* The loop of a fragmenting send for MTUs around the header length        *)
(* (SpecLoop).  Every ARP lookup and every L2 send completes, so every     *)
(* round of do_until that is due is taken.  The wire keeps the first       *)
(* MaxLoopFrames frames.                                                   *)
(***************************************************************************)
MaxLoopBody == 6
MaxLoopFrames == 8

LoopMtus == {19, 20, 21, 28}

InitLoop ==
    /\ InitRx
    /\ InitRestIdle
    /\ InitTxIdle
    /\ InitProbeIdle
    /\ InitPkIdle
    /\ \E m \in LoopMtus : hw_features = [HwDefault(FALSE) EXCEPT !.mtu = m]

\* one round of do_until(stop, send_frag)
LoopFrag ==
    IF Len(wire) < MaxLoopFrames
    THEN SendFrag
    ELSE /\ tx.state = "frag"
         /\ tx' = after_send_frag(tx, can_send(hw_features.mtu, tx.remaining))
         /\ UNCHANGED <<frags, frags_age, frag_mem, frag_timer, now, fwdq,
                        hw_features, crashed, last, wire, wire_rx, l4_log,
                        probe, pk, mb, ic, arp, packet_filter>>

NextLoop ==
    \/ \E to \in {HostAddr, FarAddr} :
           \E proto_num \in {IPPROTO_TCP, IPPROTO_UDP} :
               \E len \in 0 .. MaxLoopBody : Send(to, proto_num, TxBody(len))
    \/ LoopFrag

SpecLoop == InitLoop /\ [][NextLoop]_vars /\ WF_vars(LoopFrag)

\* C34: a fragmenting send terminates: the loop reaches remaining = 0
C34_Terminates == (tx.state = "frag") ~> (tx.state = "done" /\ tx.remaining = 0)

\* the loop ends for every MTU of the model but the MTU of 20
C34_TerminatesUnlessMtu20 ==
    (tx.state = "frag" /\ hw_features.mtu # ipv4_hdr_len_min)
        ~> (tx.state = "done" /\ tx.remaining = 0)

\* ---------------------------------------------------------------------
\* The receive poll of the DPDK device: net_device::poll_rx_once and
\* net_device::process_packets.  Here mb is the receive side of one
\* queue: the RX ring, the mbuf pool, the buffers held by packets handed
\* to l2receive, and what the last poll took and handed on.
\* ---------------------------------------------------------------------

\* the ring lengths of the model
RingLens == {0, 1, 5, 31, 32, 33, 40, 70}

\* every how many mbufs one is flagged, 0 for none
RingEvery == {0, 2, 3}

packet_read_size == 32

\* the rte_mbuf at ring position i: ol_flags has PKT_RX_IP_CKSUM_BAD or
\* PKT_RX_L4_CKSUM_BAD set (bad), PKT_RX_VLAN_PKT set (vlan)
RxMbuf(i, kb, kv, nc) ==
    [id |-> i,
     bad |-> IF kb = 0 THEN "none"
             ELSE IF i % kb # 0 THEN "none"
             ELSE IF i % 2 = 0 THEN "ip" ELSE "l4",
     vlan |-> (kv # 0 /\ i % (kv + 1) = 1),
     vlan_tci |-> 100 + i,
     contiguous |-> (i # nc)]

\* the drop of process_packets without the test of the flags
rx_drop_never(rx_csum_offload, m) == FALSE

\* process_packets, lines 412-417: with rx_csum_offload a buffer flagged
\* PKT_RX_IP_CKSUM_BAD or PKT_RX_L4_CKSUM_BAD is dropped
rx_drop(rx_csum_offload, m) == rx_csum_offload /\ m.bad \in {"ip", "l4"}

\* process_packets, lines 402-408: the offload_info of the packet
rx_offload_info(vlan_strip, m) ==
    IF vlan_strip /\ m.vlan
    THEN [hw_vlan |-> TRUE, vlan_tci |-> m.vlan_tci]
    ELSE [hw_vlan |-> FALSE, vlan_tci |-> 0]

\* one round of the loop of process_packets: rte_exit on a buffer that is
\* not contiguous; a dropped packet is destroyed and its deleter gives the
\* buffer back with rte_pktmbuf_free; else the packet goes to l2receive
process_one(st, m, rx_csum_offload) ==
    IF st.exited THEN st
    ELSE IF ~m.contiguous THEN [st EXCEPT !.exited = TRUE]
    ELSE IF rx_drop(rx_csum_offload, m)
         THEN [st EXCEPT !.pool = @ \cup {m.id}]
         ELSE [st EXCEPT
                  !.l2 = Append(@, [id |-> m.id,
                                    oi |-> rx_offload_info(st.vlan_strip, m)]),
                  !.held = @ \cup {m.id}]

RECURSIVE process_packets(_, _, _)
\* net_device::process_packets(bufs, count)
process_packets(st, bufs, rx_csum_offload) ==
    IF bufs = <<>> THEN st
    ELSE process_packets(process_one(st, Head(bufs), rx_csum_offload),
                         Tail(bufs), rx_csum_offload)

\* rte_eth_rx_burst(port, qid, buf, nb): the number of buffers it returns
rx_burst_count(ring, nb) == IF Len(ring) < nb THEN Len(ring) ELSE nb

PollIdle(ring, vlan_strip) ==
    [ring |-> ring, pool |-> {}, held |-> {}, l2 |-> <<>>, burst |-> <<>>,
     vlan_strip |-> vlan_strip, exited |-> FALSE, polls |-> 0]

PollUnchanged ==
    UNCHANGED <<frags, frags_age, frag_mem, frag_timer, now, fwdq,
                hw_features, last, tx, wire, wire_rx, l4_log, probe,
                pk, ic, arp, packet_filter>>

\* net_device::poll_rx_once: one burst is taken off the ring and processed
PollRxOnce ==
    /\ ~crashed
    /\ mb.polls < 4
    /\ mb' = process_packets(
                 [mb EXCEPT
                     !.ring = SubSeq(@, rx_burst_count(@, packet_read_size) + 1,
                                     Len(@)),
                     !.burst = SubSeq(mb.ring, 1,
                                      rx_burst_count(mb.ring, packet_read_size)),
                     !.l2 = <<>>,
                     !.polls = @ + 1],
                 SubSeq(mb.ring, 1, rx_burst_count(mb.ring, packet_read_size)),
                 hw_features.rx_csum_offload)
    /\ crashed' = mb'.exited
    /\ PollUnchanged

\* the layers above destroy a packet they were handed: its deleter gives
\* the buffer back
PollRelease ==
    /\ ~crashed
    /\ mb.held # {}
    /\ mb' = [mb EXCEPT !.held = {}, !.pool = @ \cup mb.held]
    /\ UNCHANGED crashed
    /\ PollUnchanged

InitPoll ==
    /\ InitRx
    /\ InitTxIdle
    /\ InitProbeIdle
    /\ InitPkIdle
    /\ ic = IcIdle
    /\ arp = <<>>
    /\ packet_filter = FALSE
    /\ \E o \in BOOLEAN : hw_features = HwDefault(o)
    /\ \E n \in RingLens : \E kb \in RingEvery : \E kv \in RingEvery :
           \E nc \in {0, 3} : \E vlan_strip \in BOOLEAN :
               mb = PollIdle([i \in 1 .. n |-> RxMbuf(i, kb, kv, nc)],
                             vlan_strip)

NextPoll ==
    \/ PollRxOnce
    \/ PollRelease

SpecPoll == InitPoll /\ [][NextPoll]_vars

\* the ids of the frames handed to l2receive by the last poll
PollHanded == {mb.l2[i].id : i \in DOMAIN mb.l2}

\* C35: a poll hands at most 32 frames to l2receive, in ring order; with
\* RX checksum offload a frame flagged bad is not handed on and its buffer
\* is back in the pool; a frame whose VLAN tag was stripped carries hw_vlan
\* and its vlan_tci
C35_PollHandsOn ==
    /\ Len(mb.l2) <= packet_read_size
    /\ Len(mb.burst) <= packet_read_size
    /\ \A i \in DOMAIN mb.l2 :
           /\ \E j \in DOMAIN mb.burst :
                  /\ mb.burst[j].id = mb.l2[i].id
                  /\ (mb.vlan_strip /\ mb.burst[j].vlan)
                         => /\ mb.l2[i].oi.hw_vlan
                            /\ mb.l2[i].oi.vlan_tci = mb.burst[j].vlan_tci
                  /\ hw_features.rx_csum_offload => mb.burst[j].bad = "none"
           /\ i > 1 => mb.l2[i - 1].id < mb.l2[i].id
    /\ \A j \in DOMAIN mb.burst :
           /\ j > 1 => mb.burst[j].id = mb.burst[j - 1].id + 1
           /\ (~crashed /\ ~rx_drop(hw_features.rx_csum_offload, mb.burst[j]))
                  => mb.burst[j].id \in PollHanded
           /\ (~crashed /\ hw_features.rx_csum_offload
                  /\ mb.burst[j].bad # "none")
                  => /\ mb.burst[j].id \notin PollHanded
                     /\ mb.burst[j].id \in mb.pool
                     /\ mb.burst[j].id \notin mb.held

\* a full burst of 32 out of a longer ring, with frames dropped for both
\* flags and a frame with a stripped tag handed on
C35_Witness ==
    /\ ~crashed
    /\ hw_features.rx_csum_offload
    /\ Len(mb.burst) = packet_read_size
    /\ Len(mb.ring) > 0
    /\ \E j \in DOMAIN mb.burst :
           mb.burst[j].bad = "ip" /\ mb.burst[j].id \in mb.pool
    /\ \E j \in DOMAIN mb.burst :
           mb.burst[j].bad = "l4" /\ mb.burst[j].id \in mb.pool
    /\ \E i \in DOMAIN mb.l2 : mb.l2[i].oi.hw_vlan
    /\ Len(mb.l2) < Len(mb.burst)

\* ---------------------------------------------------------------------
\* The transmit path of the DPDK device: net_device::send, copy_one_frag
\* and copy_one_data_buf.  Here mb is the transmit side of one queue: the
\* mbuf pool, the mbufs, the TX ring and the locals of the last send.  The
\* bytes of a fragment are a sequence of ranges <<first, length>> of byte
\* positions, so that a copy is told from another by what it holds.
\* ---------------------------------------------------------------------

mbuf_data_size == 2048

max_frags == 32

\* the mbufs of the pool
MaxMbufs == 40

\* the heads the TX ring of the model holds
MaxTxRing == 2

\* the sends of a run of the model
MaxDevSends == 2

\* the numbers of free mbufs the pool starts with
PoolSizes == {0, 1, 2, 3, 5, 6, 32, 40}

RECURSIVE RangeSlice(_, _, _)
\* the len bytes from offset off of the bytes rs
RangeSlice(rs, off, len) ==
    IF len = 0 \/ rs = <<>> THEN <<>>
    ELSE IF off >= Head(rs)[2]
         THEN RangeSlice(Tail(rs), off - Head(rs)[2], len)
    ELSE IF off + len <= Head(rs)[2]
         THEN << <<Head(rs)[1] + off, len>> >>
    ELSE << <<Head(rs)[1] + off, Head(rs)[2] - off>> >>
             \o RangeSlice(Tail(rs), 0, len - (Head(rs)[2] - off))

RECURSIVE RangeJoin(_)
\* the bytes rs with touching ranges made one
RangeJoin(rs) ==
    IF Len(rs) < 2 THEN rs
    ELSE IF rs[1][1] + rs[1][2] = rs[2][1]
         THEN RangeJoin(<< <<rs[1][1], rs[1][2] + rs[2][2]>> >>
                            \o Tail(Tail(rs)))
    ELSE <<rs[1]>> \o RangeJoin(Tail(rs))

RECURSIVE RangeLen(_)
RangeLen(rs) == IF rs = <<>> THEN 0 ELSE Head(rs)[2] + RangeLen(Tail(rs))

RECURSIVE FragsData(_)
\* the bytes of the fragments fs, one after the other
FragsData(fs) == IF fs = <<>> THEN <<>> ELSE Head(fs).data \o FragsData(Tail(fs))

RECURSIVE FragsLen(_)
FragsLen(fs) == IF fs = <<>> THEN 0 ELSE Head(fs).size + FragsLen(Tail(fs))

RECURSIVE DevFrags(_, _, _)
\* fragments of the given sizes, gap bytes apart in memory
DevFrags(sizes, base, gap) ==
    IF sizes = <<>> THEN <<>>
    ELSE <<[size |-> Head(sizes),
            data |-> IF Head(sizes) = 0 THEN <<>>
                     ELSE << <<base, Head(sizes)>> >>]>>
             \o DevFrags(Tail(sizes), base + Head(sizes) + gap, gap)

\* a packet of fragments of the given sizes
DevPkt(sizes, gap) ==
    [frags |-> DevFrags(sizes, 1, gap),
     len |-> FragsLen(DevFrags(sizes, 1, gap))]

DevSizes ==
    { <<>>, <<0>>, <<1>>, <<2047>>, <<2048>>, <<2049>>, <<4096>>, <<4097>>,
      <<100, 2049>>, <<2048, 1, 4096>>, <<5, 0>>, <<5000, 3, 6000>>,
      [i \in 1 .. max_frags |-> 1], [i \in 1 .. max_frags + 1 |-> 3],
      [i \in 1 .. max_frags + 2 |-> 100] }

DevPkts == { DevPkt(sizes, gap) : sizes \in DevSizes, gap \in {0, 7} }

\* packet::linearize() of the whole packet: one fragment with the bytes of
\* all
dev_linearize(p) ==
    [frags |-> <<[size |-> p.len, data |-> FragsData(p.frags)]>>,
     len |-> p.len]

\* an mbuf as rte_pktmbuf_alloc resets it
MbufReset ==
    [data_len |-> 0, pkt_len |-> 0, nb_segs |-> 1, next |-> 0, data |-> <<>>]

RECURSIVE rte_pktmbuf_free(_, _)
\* rte_pktmbuf_free(m): every segment of the chain goes back to the pool
rte_pktmbuf_free(st, m) ==
    IF m = 0 THEN st
    ELSE rte_pktmbuf_free([st EXCEPT !.pool = @ \cup {m},
                                     !.m[m] = MbufReset],
                          st.m[m].next)

\* copy_one_data_buf with the whole rest in one mbuf
data_buf_len_all(l) == l

\* copy_one_data_buf, line 446: len = std::min(l, mbuf_data_size)
data_buf_len(l) == IF l < mbuf_data_size THEN l ELSE mbuf_data_size

\* copy_one_data_buf(m, data, l) with data = frag.base + off and
\* l = frag.size - off: cm is the mbuf, clen the length returned
copy_one_data_buf(st, frag, off) ==
    IF st.pool = {}
    THEN [st EXCEPT !.cm = 0, !.clen = 0, !.alloc_failed = TRUE]
    ELSE [st EXCEPT
             !.pool = @ \ {Min(st.pool)},
             !.cm = Min(st.pool),
             !.clen = data_buf_len(frag.size - off),
             !.m[Min(st.pool)] =
                 [MbufReset EXCEPT
                     !.data_len = data_buf_len(frag.size - off),
                     !.pkt_len = data_buf_len(frag.size - off),
                     !.data = RangeSlice(frag.data, off,
                                         data_buf_len(frag.size - off))]]

\* copy_one_frag that leaves the chain alone when a later mbuf is missing
copy_frag_fail_leak(st, head) == [st EXCEPT !.ok = FALSE]

\* copy_one_frag, lines 476-479: a later mbuf is missing
copy_frag_fail(st, head) == [rte_pktmbuf_free(st, head) EXCEPT !.ok = FALSE]

RECURSIVE copy_rest(_, _, _, _, _, _)
RECURSIVE copy_rest_got(_, _, _, _, _, _)
\* copy_one_frag, the loop while (left_to_copy), and the return of last_seg
copy_rest(st, frag, off, head, prev_seg, nsegs) ==
    IF off = frag.size
    THEN [st EXCEPT !.ok = TRUE, !.fhead = head, !.flast = prev_seg,
                    !.nsegs = nsegs]
    ELSE copy_rest_got(copy_one_data_buf(st, frag, off), frag, off, head,
                       prev_seg, nsegs)

\* copy_one_frag, one round of the loop after copy_one_data_buf
copy_rest_got(s, frag, off, head, prev_seg, nsegs) ==
    IF s.clen = 0
    THEN copy_frag_fail(s, head)
    ELSE copy_rest([s EXCEPT !.m[prev_seg].next = s.cm], frag,
                   off + s.clen, head, s.cm, nsegs + 1)

\* copy_one_frag after the first copy_one_data_buf
copy_one_frag_head(s, frag) ==
    IF s.clen = 0
    THEN [s EXCEPT !.ok = FALSE, !.fhead = 0]
    ELSE copy_rest(s, frag, s.clen, s.cm, s.cm, 1)

\* net_device::copy_one_frag(frag, head, last_seg, nsegs)
copy_one_frag(st, frag) ==
    IF frag.size = 0
    THEN [st EXCEPT !.exited = TRUE, !.ok = FALSE]
    ELSE copy_one_frag_head(copy_one_data_buf(st, frag, 0), frag)

\* net_device::send, lines 546-576: the head gets the packet's length and
\* the number of segments and goes to the TX ring
send_submit(st, p, head, total_nsegs) ==
    [st EXCEPT !.m[head].pkt_len = p.len,
               !.m[head].nb_segs = total_nsegs,
               !.txq = Append(@, head),
               !.ret = "ready"]

RECURSIVE send_frags(_, _, _, _, _, _)
RECURSIVE send_frag_got(_, _, _, _, _, _)
\* net_device::send, the loop over the fragments from i on
send_frags(st, p, i, head, last_seg, total_nsegs) ==
    IF i > Len(p.frags)
    THEN send_submit(st, p, head, total_nsegs)
    ELSE send_frag_got(copy_one_frag(st, p.frags[i]), p, i, head, last_seg,
                       total_nsegs)

\* net_device::send, one round of the loop after copy_one_frag
send_frag_got(s, p, i, head, last_seg, total_nsegs) ==
    IF s.exited THEN s
    ELSE IF ~s.ok
         THEN [rte_pktmbuf_free(s, head) EXCEPT !.ret = "ready"]
    ELSE send_frags([s EXCEPT !.m[last_seg].next = s.fhead], p, i + 1, head,
                    s.flast, total_nsegs + s.nsegs)

\* net_device::send after the copy of frag(0)
send_first_got(s, p) ==
    IF s.exited THEN s
    ELSE IF ~s.ok THEN [s EXCEPT !.ret = "ready"]
    ELSE send_frags(s, p, 2, s.fhead, s.flast, s.nsegs)

\* net_device::send after the test of the length
send_frag0(st, p) == send_first_got(copy_one_frag(st, p.frags[1]), p)

\* net_device::send(p)
net_device_send(st, p) ==
    IF p.len = 0 THEN [st EXCEPT !.ret = "ready"]
    ELSE IF Len(p.frags) > max_frags THEN send_frag0(st, dev_linearize(p))
    ELSE send_frag0(st, p)

DevIdle(n) ==
    [pool |-> 1 .. n, m |-> [i \in 1 .. MaxMbufs |-> MbufReset], txq |-> <<>>,
     cm |-> 0, clen |-> 0, ok |-> TRUE, fhead |-> 0, flast |-> 0, nsegs |-> 0,
     alloc_failed |-> FALSE, exited |-> FALSE, ret |-> "none",
     op |-> "init", p |-> DevPkt(<<>>, 0), pool0 |-> 1 .. n, txq0 |-> <<>>,
     sends |-> 0]

\* the locals of a send before it starts
DevEnter(st, p) ==
    [st EXCEPT !.cm = 0, !.clen = 0, !.ok = TRUE, !.fhead = 0, !.flast = 0,
               !.nsegs = 0, !.alloc_failed = FALSE, !.ret = "none",
               !.op = "send", !.p = p, !.pool0 = st.pool, !.txq0 = st.txq,
               !.sends = @ + 1]

\* net_device::send(p); rte_eth_tx_burst takes the head when the ring has
\* room
DevSend(p) ==
    /\ ~crashed
    /\ Len(mb.txq) < MaxTxRing
    /\ mb.sends < MaxDevSends
    /\ mb' = net_device_send(DevEnter(mb, p), p)
    /\ crashed' = mb'.exited
    /\ PollUnchanged

\* the NIC has sent the first chain of the TX ring and frees it
DevTxDone ==
    /\ ~crashed
    /\ mb.txq # <<>>
    /\ mb' = [rte_pktmbuf_free([mb EXCEPT !.txq = Tail(@)], Head(mb.txq))
                 EXCEPT !.op = "txdone"]
    /\ UNCHANGED crashed
    /\ PollUnchanged

InitDev ==
    /\ InitRx
    /\ InitTxIdle
    /\ InitProbeIdle
    /\ InitPkIdle
    /\ ic = IcIdle
    /\ arp = <<>>
    /\ packet_filter = FALSE
    /\ hw_features = HwDefault(FALSE)
    /\ \E n \in PoolSizes : mb = DevIdle(n)

NextDev ==
    \/ \E p \in DevPkts : DevSend(p)
    \/ DevTxDone

SpecDev == InitDev /\ [][NextDev]_vars

RECURSIVE DevChain(_, _)
\* the mbufs of the chain that starts at h
DevChain(m, h) == IF h = 0 THEN <<>> ELSE <<h>> \o DevChain(m, m[h].next)

RECURSIVE ChainData(_, _)
ChainData(m, ch) ==
    IF ch = <<>> THEN <<>> ELSE m[Head(ch)].data \o ChainData(m, Tail(ch))

RECURSIVE ChainLen(_, _)
ChainLen(m, ch) ==
    IF ch = <<>> THEN 0 ELSE m[Head(ch)].data_len + ChainLen(m, Tail(ch))

RECURSIVE SegsOf(_)
\* the sum over the fragments of ceil(size / 2048)
SegsOf(fs) ==
    IF fs = <<>> THEN 0
    ELSE CeilDiv(Head(fs).size, mbuf_data_size) + SegsOf(Tail(fs))

\* the last send has put a head on the TX ring
DevSubmitted == mb.op = "send" /\ ~crashed /\ mb.txq # mb.txq0

\* the head the last send has put on the TX ring
DevHead == mb.txq[Len(mb.txq)]

\* the fragments the chain of the last send is built from
DevBuiltFrom ==
    IF Len(mb.p.frags) > max_frags
    THEN <<[size |-> mb.p.len, data |-> <<>>]>>
    ELSE mb.p.frags

\* C36: the chain of a transmitted packet holds the packet's bytes in
\* order, is built from at most 32 fragments, has segments of 1 to 2048
\* bytes, nb_segs = sum of ceil(size / 2048) = length of the chain,
\* pkt_len = length of the packet = sum of the segments; one head is
\* submitted
C36_ChainCarriesPacket ==
    DevSubmitted =>
        /\ mb.p.len > 0
        /\ mb.txq = Append(mb.txq0, DevHead)
        /\ Len(DevBuiltFrom) <= max_frags
        /\ RangeJoin(ChainData(mb.m, DevChain(mb.m, DevHead)))
               = RangeJoin(FragsData(mb.p.frags))
        /\ \A i \in DOMAIN DevChain(mb.m, DevHead) :
               /\ mb.m[DevChain(mb.m, DevHead)[i]].data_len >= 1
               /\ mb.m[DevChain(mb.m, DevHead)[i]].data_len <= mbuf_data_size
               /\ mb.m[DevChain(mb.m, DevHead)[i]].data_len
                      = RangeLen(mb.m[DevChain(mb.m, DevHead)[i]].data)
               /\ DevChain(mb.m, DevHead)[i] \notin mb.pool
        /\ mb.m[DevHead].nb_segs = SegsOf(DevBuiltFrom)
        /\ mb.m[DevHead].nb_segs = Len(DevChain(mb.m, DevHead))
        /\ mb.m[DevHead].pkt_len = mb.p.len
        /\ mb.m[DevHead].pkt_len = ChainLen(mb.m, DevChain(mb.m, DevHead))

\* a packet of three fragments of 5000, 3 and 6000 bytes has gone out in
\* seven segments
C36_Witness ==
    /\ DevSubmitted
    /\ Len(mb.p.frags) = 3
    /\ mb.p.len = 11003
    /\ mb.m[DevHead].nb_segs = 7

\* a packet of 33 fragments has gone out as one segment
C36_WitnessLinearized ==
    /\ DevSubmitted
    /\ Len(mb.p.frags) = max_frags + 1
    /\ mb.m[DevHead].nb_segs = 1

\* C37: when an allocation fails in send, every mbuf the send has
\* allocated is back in the pool, nothing is submitted and the send returns
\* a ready future
C37_AllocFailureCleansUp ==
    (mb.op = "send" /\ mb.alloc_failed) =>
        /\ mb.pool = mb.pool0
        /\ mb.txq = mb.txq0
        /\ mb.ret = "ready"
        /\ ~crashed

\* the allocation has failed for a later mbuf of a later fragment, after
\* the send had taken mbufs
C37_Witness ==
    /\ mb.op = "send"
    /\ mb.alloc_failed
    /\ mb.p.frags[1].size = 5000
    /\ Cardinality(mb.pool0) = 5
    /\ mb.pool = mb.pool0

\* ---------------------------------------------------------------------
\* toeplitz_hash (net/toeplitz.hh).  A uint32_t is a sequence of 32 bits,
\* the most significant first; a byte is a number below 256.  Here probe
\* holds the key, the data and the hash returned.
\* ---------------------------------------------------------------------

rss_keysize == 40

\* the Mellanox key of toeplitz.hh
rsskey ==
    <<209, 129, 198, 44, 247, 244, 219, 91,
      25, 131, 162, 252, 148, 62, 26, 219,
      217, 56, 158, 107, 209, 3, 156, 44,
      167, 68, 153, 173, 89, 61, 86, 217,
      243, 37, 60, 6, 42, 220, 31, 252>>

\* byte & (1 << (7 - b)), as 0 or 1
ByteBit(byte, b) == (byte \div (2 ^ (7 - b))) % 2

\* the 8 bits of a byte
ByteBits(byte) == [j \in 1 .. 8 |-> ByteBit(byte, j - 1)]

Word0 == SubSeq([j \in 1 .. 32 |-> 0], 1, 32)

\* a ^ b on 32 bits
WordXor(a, b) == SubSeq([j \in 1 .. 32 |-> (a[j] + b[j]) % 2], 1, 32)

\* line 53: v = (key[0] << 24) + (key[1] << 16) + (key[2] << 8) + key[3]
toeplitz_v0(key) ==
    ByteBits(key[1]) \o ByteBits(key[2]) \o ByteBits(key[3])
        \o ByteBits(key[4])

\* the bit taken into v without the key
toeplitz_key_bit_none(key, i, b) == 0

\* lines 59-61: the bit of key[i + 4] taken into v, 0 past the key
toeplitz_key_bit(key, i, b) ==
    IF i + 4 < Len(key) THEN ByteBit(key[i + 4 + 1], b) ELSE 0

\* lines 58-61: v <<= 1 and the new low bit
toeplitz_shift(v, key, i, b) == Tail(v) \o <<toeplitz_key_bit(key, i, b)>>

\* lines 56-61: one round of the inner loop on hv = <<hash, v>>
toeplitz_bit(key, data, i, b, hv) ==
    <<IF ByteBit(data[i + 1], b) = 1 THEN WordXor(hv[1], hv[2]) ELSE hv[1],
      toeplitz_shift(hv[2], key, i, b)>>

RECURSIVE toeplitz_bits(_, _, _, _, _)
\* lines 55-62: the loop over the bits b of data[i]; v is a uint32_t
toeplitz_bits(key, data, i, b, hv) ==
    IF b >= 8 \/ Len(hv[2]) # 32 THEN hv
    ELSE toeplitz_bits(key, data, i, b + 1, toeplitz_bit(key, data, i, b, hv))

RECURSIVE toeplitz_loop(_, _, _, _)
\* lines 54-63: the loop over the bytes i of the data
toeplitz_loop(key, data, i, hv) ==
    IF i >= Len(data) \/ Len(hv[2]) # 32 THEN hv
    ELSE toeplitz_loop(key, data, i + 1, toeplitz_bits(key, data, i, 0, hv))

\* toeplitz_hash(key, data)
toeplitz_hash(key, data) ==
    toeplitz_loop(key, data, 0, <<Word0, toeplitz_v0(key)>>)[1]

\* the lengths of the data of the model
HashLens == {0, 1, 2, 4, 8, 12, 35, 36, 37, 40, 44}

\* data[i] = (a * i + c) % 256
HashData ==
    { [i \in 1 .. n |-> (a * i + c) % 256] :
          n \in HashLens, a \in {0, 37, 255}, c \in {0, 1, 128, 255} }

HashKeys ==
    { rsskey, [i \in 1 .. rss_keysize |-> 0], [i \in 1 .. rss_keysize |-> 255],
      [i \in 1 .. rss_keysize |-> IF i = rss_keysize THEN 1 ELSE 0] }

InitHash ==
    /\ InitRx
    /\ InitTxIdle
    /\ InitPkIdle
    /\ InitRestIdle
    /\ hw_features = HwDefault(FALSE)
    /\ \E key \in HashKeys : \E data \in HashData :
           probe = [key |-> key, data |-> data, called |-> FALSE,
                    ans |-> Word0]

\* toeplitz_hash is called with the key and the data
HashCall ==
    /\ ~probe.called
    /\ probe' = [probe EXCEPT !.called = TRUE,
                              !.ans = toeplitz_hash(probe.key, probe.data)]
    /\ UNCHANGED <<frags, frags_age, frag_mem, frag_timer, now, fwdq,
                   hw_features, crashed, last, tx, wire, wire_rx, l4_log,
                   pk, mb, ic, arp, packet_filter>>

NextHash == HashCall

SpecHash == InitHash /\ [][NextHash]_vars

\* bit k of the key, counted from the most significant bit of byte 0, and
\* 0 past the key
KeyBitAt(key, k) ==
    IF k < 8 * rss_keysize THEN ByteBit(key[(k \div 8) + 1], k % 8) ELSE 0

\* the 32 bits of the key from bit k on
KeyWindow(key, k) == [j \in 1 .. 32 |-> KeyBitAt(key, k + j - 1)]

\* the set bits of the data, counted from the most significant bit of
\* byte 0
DataSetBits(data) ==
    { k \in 0 .. 8 * Len(data) - 1 :
          ByteBit(data[(k \div 8) + 1], k % 8) = 1 }

\* the XOR of the windows of the set bits of the data: bit j is the parity
\* of the windows that have bit j set
WindowsXor(key, data) ==
    [j \in 1 .. 32 |->
        Cardinality({ k \in DataSetBits(data) : KeyWindow(key, k)[j] = 1 })
            % 2]

\* C38: toeplitz_hash returns the XOR, over the set bits k of the data, of
\* the 32 bits of the key from bit k on, the key followed by zero bits; it
\* is a function of key and data, and data of zero bytes hashes to 0
C38_HashIsXorOfWindows ==
    probe.called =>
        /\ probe.ans = WindowsXor(probe.key, probe.data)
        /\ probe.ans = toeplitz_hash(probe.key, probe.data)
        /\ (\A i \in DOMAIN probe.data : probe.data[i] = 0)
               => probe.ans = Word0

\* data longer than 36 bytes with set bits in the last bytes has been
\* hashed with the Mellanox key, past the end of the key
C38_Witness ==
    /\ probe.called
    /\ probe.key = rsskey
    /\ Len(probe.data) = 44
    /\ probe.data[44] = 255
    /\ probe.ans # Word0

\* all-zero data has been hashed with a key that is not zero
C38_WitnessZero ==
    /\ probe.called
    /\ probe.key = rsskey
    /\ Len(probe.data) = 40
    /\ \A i \in DOMAIN probe.data : probe.data[i] = 0
    /\ probe.ans = Word0

\* ---------------------------------------------------------------------
\* The start of the device across the cores:
\* dpdk_distributed_device::init_local_queue on every core and the
\* messages it sends to core 0.  Here mb is the device: smp::count,
\* _num_queues, the cores that have run init_local_queue, the queue id
\* each net_device was made with, the local queue of each core, the
\* hardware queues set up, the messages on their way to core 0,
\* _queues_ready and the calls of rte_eth_dev_start.
\* ---------------------------------------------------------------------

MaxSmpCount == 4

MaxNumQueues == 4

\* rte_eth_rx_queue_setup and rte_eth_tx_queue_setup succeed for the
\* queues the port was configured with
queue_setup_ok(qid, num_queues) == qid < num_queues

\* init_local_queue, line 614: if (engine.cpu_id() < smp::count)
local_is_hw(cpu_id, count, num_queues) == cpu_id < count

\* init_local_queue, lines 618-622: the proxies added to the net_device
local_proxies(cpu_id, count, num_queues) ==
    { i \in num_queues .. count - 1 : i # cpu_id }

\* net_device::net_device(dev, qid), lines 363-384: rte_exit unless the RX
\* and the TX queue are set up
net_device_ctor(st, c) ==
    IF queue_setup_ok(c, st.num_queues)
    THEN [st EXCEPT !.qid[c] = c, !.setup = @ \cup {c}]
    ELSE [st EXCEPT !.qid[c] = c, !.exited = TRUE]

\* init_local_queue after the constructor: the proxies, the message to
\* core 0 and set_local_queue
local_hw_rest(s, c) ==
    IF s.exited THEN s
    ELSE [s EXCEPT !.proxies[c] = local_proxies(c, s.count, s.num_queues),
                   !.msgs = @ + 1,
                   !.local[c] = "hw"]

\* dpdk_distributed_device::init_local_queue on core c
init_local_queue(st, c) ==
    IF local_is_hw(c, st.count, st.num_queues)
    THEN local_hw_rest(net_device_ctor(st, c), c)
    ELSE [st EXCEPT !.local[c] = "proxy"]

\* the lambda of lines 623-629 on core 0
queue_ready(st) ==
    IF st.queues_ready + 1 = st.num_queues
    THEN [st EXCEPT !.queues_ready = @ + 1,
                    !.starts = @ + 1,
                    !.setup_at_start = st.setup]
    ELSE [st EXCEPT !.queues_ready = @ + 1]

StartIdle(count, num_queues) ==
    [count |-> count, num_queues |-> num_queues, ran |-> {},
     qid |-> [c \in 0 .. count - 1 |-> -1],
     local |-> [c \in 0 .. count - 1 |-> "none"],
     proxies |-> [c \in 0 .. count - 1 |-> {}],
     setup |-> {}, msgs |-> 0, queues_ready |-> 0, starts |-> 0,
     setup_at_start |-> {}, exited |-> FALSE]

\* core c runs init_local_queue
InitLocalQueue(c) ==
    /\ ~crashed
    /\ c \notin mb.ran
    /\ mb' = init_local_queue([mb EXCEPT !.ran = @ \cup {c}], c)
    /\ crashed' = mb'.exited
    /\ PollUnchanged

\* core 0 runs one of the messages sent with smp::submit_to(0, ...)
QueueReady ==
    /\ ~crashed
    /\ mb.msgs > 0
    /\ mb' = queue_ready([mb EXCEPT !.msgs = @ - 1])
    /\ UNCHANGED crashed
    /\ PollUnchanged

InitStart ==
    /\ InitRx
    /\ InitTxIdle
    /\ InitProbeIdle
    /\ InitPkIdle
    /\ ic = IcIdle
    /\ arp = <<>>
    /\ packet_filter = FALSE
    /\ hw_features = HwDefault(FALSE)
    /\ \E count \in 1 .. MaxSmpCount : \E num_queues \in 1 .. MaxNumQueues :
           mb = StartIdle(count, num_queues)

NextStart ==
    \/ \E c \in 0 .. mb.count - 1 : InitLocalQueue(c)
    \/ QueueReady

SpecStart == InitStart /\ [][NextStart]_vars

\* every core has run init_local_queue and core 0 has run every message
StartSettled == mb.ran = 0 .. mb.count - 1 /\ mb.msgs = 0 /\ ~crashed

\* the hardware queues in use: those of the cores with a net_device
QueuesInUse == { mb.qid[c] : c \in { d \in mb.ran : mb.qid[d] >= 0 } }

\* C39: once every core has run init_local_queue and core 0 has run every
\* readiness message, the port has been started exactly once and after all
\* hardware queues in use were set up; the queue id of every net_device is
\* below the number of queues and the cores from the number of queues on
\* use a proxy
C39_StartedOnceAfterQueues ==
    /\ StartSettled =>
           /\ mb.starts = 1
           /\ QueuesInUse \subseteq mb.setup_at_start
           /\ \A c \in mb.ran : c >= mb.num_queues => mb.local[c] = "proxy"
    /\ \A c \in mb.ran : mb.qid[c] < mb.num_queues

\* with as many queues as cores the port is started once, after all queues
C39_HoldsForEqualCounts ==
    (StartSettled /\ mb.count = mb.num_queues) =>
        /\ mb.starts = 1
        /\ QueuesInUse = 0 .. mb.num_queues - 1
        /\ QueuesInUse \subseteq mb.setup_at_start

\* with fewer cores than queues the port is never started
C39_NeverStartedWithFewerCores ==
    mb.count < mb.num_queues => mb.starts = 0

\* with more cores than queues a core makes a net_device for a queue the
\* port does not have, and no run settles
C39_NoProxyLocalQueue ==
    /\ \A c \in mb.ran : mb.local[c] # "proxy"
    /\ mb.count > mb.num_queues => ~StartSettled

====
